---- MODULE Spec2Model ----
(***************************************************************************)
(* Zevia2048: the board engine (js/game.js, class Game) and the page that  *)
(* drives it (js/ui.js, class UI).                                         *)
(*                                                                         *)
(* The engine object `game` is one record; every method of the class is an *)
(* operator from an engine record to the engine record it leaves behind    *)
(* (and its return value), written statement by statement from the source. *)
(* Array positions are 0-based board indices exactly as in the source;     *)
(* positions inside a line (read, write) are 1-based.                      *)
(*                                                                         *)
(* The page object `ui` is one record as well; a method of UI is an        *)
(* operator on a "world", the pair of the engine and the page, because the *)
(* page reads and writes the global engine.  Callbacks handed to           *)
(* requestAnimationFrame and setTimeout are records holding what their     *)
(* closures captured; everything else they read is read live when they run.*)
(*                                                                         *)
(* The leaderboard server (backend/server.js, src/unnamed/part_002) is the *)
(* record `srv`: its clock, its rate-limiter map, the stored file, the     *)
(* chain of queued writes and the requests being handled.                  *)
(***************************************************************************)
EXTENDS Integers, Sequences, FiniteSets, TLC

VARIABLES
    game,   \* the global engine object (game.js:266)
    calls,  \* number of calls or user inputs so far (bounds the exploration)
    last,   \* the last call or event: its name, its argument and its result
    ui,     \* the global page object (ui.js:567); NoUI where no page is loaded
    clicks, \* number of clicks on New Game so far (bounds the exploration)
    srv     \* the leaderboard server process; NoServer where none runs

vars == <<game, calls, last, ui, clicks, srv>>

(***************************************************************************)
(* Bounds of the exploration.                                              *)
(***************************************************************************)
\* Number of engine calls (move or reset) explored from an initial state.
MaxCalls == 2

\* Math.random() is drawn from {0/RandLevels, ..., (RandLevels-1)/RandLevels}.
RandLevels == 2

\* Number of move() calls explored from each board of the line catalogue.
MaxLineCalls == 1

\* Number of POST requests explored against the rate limiter.
MaxLimiterPosts == 17

\* Number of clock steps explored against the rate limiter.
MaxLimiterTicks == 2

\* Number of leaderboard requests explored.
MaxRequests == 3

\* Number of clock steps explored between leaderboard requests.
MaxServerTicks == 1

\* The stored maximum (5000 entries in the source, part_002:11), scaled so
\* that a full file is explored and still holds more than MAX_LIMIT entries.
MAX_ENTRIES == 101

(***************************************************************************)
(* Constants of the program.                                               *)
(***************************************************************************)
\* JavaScript null (an empty cell, "no spawned tile").
null == -1

\* The winning kind, Ginger Root Beer.
WinKind == 10

Cells == 0 .. 15

Directions == {"left", "right", "up", "down"}

\* What a caller may pass to move(): the four directions and one other value.
Inputs == Directions \cup {"none"}

Rands == 0 .. (RandLevels - 1)

EmptyMetadata == [moves |-> <<>>, merges |-> <<>>]

(***************************************************************************)
(* addNewTile                                                              *)
(***************************************************************************)
\* The indices of the empty cells, ascending (map, then filter).
emptyIndices(board) ==
    SelectSeq([k \in 1 .. 16 |-> k - 1], LAMBDA i : board[i] = null)

\* Math.floor(Math.random() * n) for Math.random() = rnd / RandLevels.
randomBelow(rnd, n) == (rnd * n) \div RandLevels

\* Slip: the face values 2 and 4 of the original game instead of kinds.
spawnKindAsFaceValue(isRare) == IF isRare THEN 2 ELSE 1

spawnKind(isRare) == IF isRare THEN 1 ELSE 0

\* Slip: a random cell of the whole board, not of the empty ones.
spawnCellAnywhere(empties, rnd) == randomBelow(rnd, 16)

spawnCell(empties, rnd) == empties[randomBelow(rnd, Len(empties)) + 1]

addNewTile(g, rnd, isRare) ==
    LET empties == emptyIndices(g.board)
    IN  IF Len(empties) = 0
        THEN [game |-> g, ret |-> null]
        ELSE LET randomIndex == spawnCell(empties, rnd)
             IN  [game |-> [g EXCEPT !.board[randomIndex] = spawnKind(isRare)],
                  ret  |-> randomIndex]

initBoard(g, r1, rare1, r2, rare2) ==
    LET g0 == [g EXCEPT !.board = [i \in Cells |-> null]]
        g1 == addNewTile(g0, r1, rare1).game
    IN  addNewTile(g1, r2, rare2).game

(***************************************************************************)
(* processLine                                                             *)
(***************************************************************************)
lineEntries(board, indices) ==
    SelectSeq([k \in 1 .. 4 |-> [value |-> board[indices[k]], from |-> indices[k]]],
              LAMBDA e : e.value # null)

\* Slip: a tile merges only with a tile in the very next cell.
canMergeNextCell(current, entries, read) ==
    /\ read + 1 <= Len(entries)
    /\ entries[read + 1].value = current.value
    /\ entries[read + 1].from - current.from \in {-4, -1, 1, 4}

canMerge(current, entries, read) ==
    /\ read + 1 <= Len(entries)
    /\ entries[read + 1].value = current.value

\* Slip: the face value of the merged tile, one power too high.
mergeScoreAsFaceValue(mergedValue) == 2 ^ (mergedValue + 1)

mergeScore(mergedValue) == 2 ^ mergedValue

\* Slip: the second tile of a merged pair is read again.
readAfterMergeByOne(read) == read + 1

readAfterMerge(read) == read + 2

\* Slip: a record is pushed for a tile that stays where it is.
moveRecordAlways(from, target) == <<[from |-> from, to |-> target]>>

moveRecord(from, target) ==
    IF from # target THEN <<[from |-> from, to |-> target]>> ELSE <<>>

RECURSIVE walkLine(_, _, _, _, _, _)
walkLine(g, entries, indices, result, read, write) ==
    IF ~(read <= Len(entries))
    THEN [game |-> g, result |-> result]
    ELSE LET current == entries[read]
             target  == indices[write]
         IN  IF canMerge(current, entries, read)
             THEN LET next        == entries[read + 1]
                      mergedValue == current.value + 1
                      slid        == current.from # target \/ next.from # target
                      g1 == [g EXCEPT
                               !.score = @ + mergeScore(mergedValue),
                               !.mergedTiles = @ \cup {target},
                               !.movedTiles = IF slid THEN @ \cup {target} ELSE @,
                               !.animationMetadata.moves =
                                   @ \o moveRecord(current.from, target)
                                     \o moveRecord(next.from, target),
                               !.animationMetadata.merges =
                                   Append(@, [from |-> <<current.from, next.from>>,
                                              to   |-> target])]
                  IN  walkLine(g1, entries, indices,
                               [result EXCEPT ![write] = mergedValue],
                               readAfterMerge(read), write + 1)
             ELSE LET g1 == [g EXCEPT
                               !.movedTiles =
                                   IF current.from # target THEN @ \cup {target} ELSE @,
                               !.animationMetadata.moves =
                                   @ \o moveRecord(current.from, target)]
                  IN  walkLine(g1, entries, indices,
                               [result EXCEPT ![write] = current.value],
                               read + 1, write + 1)

\* Slip: only the cells of the result that hold a tile are written back.
writeLineOverTiles(board, indices, result) ==
    [board EXCEPT ![indices[1]] = IF result[1] # null THEN result[1] ELSE @,
                  ![indices[2]] = IF result[2] # null THEN result[2] ELSE @,
                  ![indices[3]] = IF result[3] # null THEN result[3] ELSE @,
                  ![indices[4]] = IF result[4] # null THEN result[4] ELSE @]

writeLine(board, indices, result) ==
    [board EXCEPT ![indices[1]] = result[1],
                  ![indices[2]] = result[2],
                  ![indices[3]] = result[3],
                  ![indices[4]] = result[4]]

processLine(g, indices) ==
    LET w == walkLine(g, lineEntries(g.board, indices), indices,
                      [k \in 1 .. 4 |-> null], 1, 1)
    IN  [w.game EXCEPT !.board = writeLine(@, indices, w.result)]

(***************************************************************************)
(* moveLeft, moveRight, moveUp, moveDown                                   *)
(***************************************************************************)
leftLine(row)  == <<row * 4, row * 4 + 1, row * 4 + 2, row * 4 + 3>>
\* Slip: the row is read from its left end.
rightLineFromLeft(row) == <<row * 4, row * 4 + 1, row * 4 + 2, row * 4 + 3>>
rightLine(row) == <<row * 4 + 3, row * 4 + 2, row * 4 + 1, row * 4>>
upLine(col)    == <<col, 4 + col, 8 + col, 12 + col>>
downLine(col)  == <<12 + col, 8 + col, 4 + col, col>>

moveLeft(g) ==
    processLine(processLine(processLine(processLine(g,
        leftLine(0)), leftLine(1)), leftLine(2)), leftLine(3))

moveRight(g) ==
    processLine(processLine(processLine(processLine(g,
        rightLine(0)), rightLine(1)), rightLine(2)), rightLine(3))

moveUp(g) ==
    processLine(processLine(processLine(processLine(g,
        upLine(0)), upLine(1)), upLine(2)), upLine(3))

moveDown(g) ==
    processLine(processLine(processLine(processLine(g,
        downLine(0)), downLine(1)), downLine(2)), downLine(3))

(***************************************************************************)
(* checkGameStatus, canMove                                                *)
(***************************************************************************)
\* Slip: the check of the neighbour below is missing.
canMoveRightOnly(board) ==
    \/ \E i \in Cells : board[i] = null
    \/ \E i \in 0 .. 3, j \in 0 .. 3 :
          LET index == i * 4 + j
          IN  j < 3 /\ board[index] = board[index + 1]

canMove(board) ==
    \/ \E i \in Cells : board[i] = null
    \/ \E i \in 0 .. 3, j \in 0 .. 3 :
          LET index == i * 4 + j
          IN  \/ j < 3 /\ board[index] = board[index + 1]
              \/ i < 3 /\ board[index] = board[index + 4]

\* Slip: won is recomputed from the board instead of only ever set.
checkGameStatusRecomputingWon(g) ==
    LET g1 == [g EXCEPT !.won = \E i \in Cells : g.board[i] = WinKind]
    IN  IF ~canMove(g1.board) THEN [g1 EXCEPT !.gameOver = TRUE] ELSE g1

checkGameStatus(g) ==
    LET g1 == IF \E i \in Cells : g.board[i] = WinKind
              THEN [g EXCEPT !.won = TRUE] ELSE g
    IN  IF ~canMove(g1.board) THEN [g1 EXCEPT !.gameOver = TRUE] ELSE g1

(***************************************************************************)
(* move                                                                    *)
(***************************************************************************)
\* Slip: the loop stops after the first row.
boardsEqualFirstRow(a, b) == \A i \in 0 .. 3 : a[i] = b[i]

boardsEqual(a, b) == \A i \in Cells : a[i] = b[i]

clearTracking(g) ==
    [g EXCEPT !.movedTiles = {},
              !.mergedTiles = {},
              !.boardBefore = g.board,
              !.boardAfterMove = g.board,
              !.animationMetadata = EmptyMetadata,
              !.newTile = null]

shift(g, direction) ==
    CASE direction = "left"  -> moveLeft(g)
      [] direction = "right" -> moveRight(g)
      [] direction = "up"    -> moveUp(g)
      [] direction = "down"  -> moveDown(g)

\* Slip: the guard of line 71 also refuses a game that is won.
slideUnlessWon(g, direction) ==
    IF g.gameOver \/ g.won
    THEN [game |-> g, changed |-> FALSE]
    ELSE LET boardBefore == g.board
             g0 == clearTracking(g)
         IN  IF direction \notin Directions
             THEN [game |-> g0, changed |-> FALSE]
             ELSE LET g1 == shift(g0, direction)
                  IN  [game |-> g1, changed |-> ~boardsEqual(boardBefore, g1.board)]

\* Slip: the gameOver guard of line 71 is missing.
slideWhenOver(g, direction) ==
    LET boardBefore == g.board
        g0 == clearTracking(g)
    IN  IF direction \notin Directions
        THEN [game |-> g0, changed |-> FALSE]
        ELSE LET g1 == shift(g0, direction)
             IN  [game |-> g1, changed |-> ~boardsEqual(boardBefore, g1.board)]

\* Lines 71-87 of move(): everything before the first use of Math.random();
\* changed tells whether the comparison of line 87 found the board changed.
slide(g, direction) ==
    IF g.gameOver
    THEN [game |-> g, changed |-> FALSE]
    ELSE LET boardBefore == g.board
             g0 == clearTracking(g)
         IN  IF direction \notin Directions
             THEN [game |-> g0, changed |-> FALSE]
             ELSE LET g1 == shift(g0, direction)
                  IN  [game |-> g1, changed |-> ~boardsEqual(boardBefore, g1.board)]

\* Lines 88-93 of move(): the board has changed.
acceptMove(g, rnd, isRare) ==
    LET g1 == [g EXCEPT !.boardAfterMove = g.board, !.moves = @ + 1]
        sp == addNewTile(g1, rnd, isRare)
    IN  checkGameStatus([sp.game EXCEPT !.newTile = sp.ret])

finish(s, rnd, isRare) ==
    IF s.changed
    THEN [game |-> acceptMove(s.game, rnd, isRare), ret |-> TRUE]
    ELSE [game |-> s.game, ret |-> FALSE]

move(g, direction, rnd, isRare) == finish(slide(g, direction), rnd, isRare)

(***************************************************************************)
(* constructor, reset                                                      *)
(***************************************************************************)
newGame(r1, rare1, r2, rare2) ==
    initBoard([board          |-> <<>>,
               score          |-> 0,
               moves          |-> 0,
               gameOver       |-> FALSE,
               won            |-> FALSE,
               winModalShown  |-> FALSE,
               movedTiles     |-> {},
               mergedTiles    |-> {},
               newTile        |-> null,
               boardBefore    |-> <<>>,
               boardAfterMove |-> <<>>,
               animationMetadata |-> EmptyMetadata],
              r1, rare1, r2, rare2)

\* Slip: reset forgets the won flag.
resetKeepingWon(g, r1, rare1, r2, rare2) ==
    initBoard([g EXCEPT !.board = <<>>,
                        !.score = 0,
                        !.moves = 0,
                        !.gameOver = FALSE,
                        !.winModalShown = FALSE,
                        !.movedTiles = {},
                        !.mergedTiles = {},
                        !.newTile = null,
                        !.boardBefore = <<>>,
                        !.boardAfterMove = <<>>,
                        !.animationMetadata = EmptyMetadata],
              r1, rare1, r2, rare2)

reset(g, r1, rare1, r2, rare2) ==
    initBoard([g EXCEPT !.board = <<>>,
                        !.score = 0,
                        !.moves = 0,
                        !.gameOver = FALSE,
                        !.won = FALSE,
                        !.winModalShown = FALSE,
                        !.movedTiles = {},
                        !.mergedTiles = {},
                        !.newTile = null,
                        !.boardBefore = <<>>,
                        !.boardAfterMove = <<>>,
                        !.animationMetadata = EmptyMetadata],
              r1, rare1, r2, rare2)

(***************************************************************************)
(* js/ui.js: the page.                                                     *)
(*                                                                         *)
(* ui.tiles is the display of the 16 board tiles: the flavor shown         *)
(* (dataset.flavor and the text, by kind), dataset.spawnFlavor, the class  *)
(* `empty`, the animation classes, and the cell the tile is translated to  *)
(* (origin; null when its transform is zero).  ui.frames are the pending   *)
(* requestAnimationFrame callbacks in registration order,                  *)
(* ui.animationTimers the pending phase timers in firing order, and        *)
(* ui.animationLockTimer tells whether the watchdog timer is pending.      *)
(* ui.offered lists the calls of game.move() made by the handler that ran  *)
(* last, each with what the page looked like when the call was made;       *)
(* ui.inFlight tells whether a move was accepted whose cleanup has not run.*)
(***************************************************************************)
SLIDE_MS == 140

CONTACT_HOLD_MS == 10

MERGE_MS == 145

CLEANUP_BUFFER == 32

WATCHDOG_MS == 700

\* JavaScript undefined (flavors[index] past the end of the table).
undefined == -2

\* The key of a flavor name is its index in the 15-entry table.
getFlavorName(index) ==
    IF index = null THEN null
    ELSE IF index \in 0 .. 14 THEN index
    ELSE undefined

\* board?.[i], with undefined read as null by the callers' tests.
at(board, i) == IF i \in DOMAIN board THEN board[i] ELSE null

World(g, u) == [game |-> g, ui |-> u]

\* A tile element as initializeBoard() creates it.
FreshTile ==
    [flavor |-> null, spawnFlavor |-> null, empty |-> FALSE,
     tags |-> {}, origin |-> null]

initializeBoard(u) == [u EXCEPT !.tiles = [i \in Cells |-> FreshTile]]

clearAnimationTimers(u) == [u EXCEPT !.animationTimers = <<>>]

clearMergeGhosts(u) == [u EXCEPT !.mergeGhosts = <<>>]

(***************************************************************************)
(* render: the synchronous part                                            *)
(***************************************************************************)
mergePlan(g, merge) ==
    LET target == merge.to
        finalFlavorIndex == g.board[target]
        pre0 == at(g.boardBefore, target)
        pre1 == IF pre0 = null THEN at(g.boardBefore, merge.from[1]) ELSE pre0
        pre2 == IF pre1 = null
                THEN (IF finalFlavorIndex - 1 > 0 THEN finalFlavorIndex - 1 ELSE 0)
                ELSE pre1
    IN  [target |-> target,
         from   |-> merge.from,
         preMergeFlavorIndex |-> pre2,
         finalFlavorIndex    |-> finalFlavorIndex]

\* The Map of merge plans, as the sequence of its entries.
mergePlanByTarget(g) ==
    LET kept == SelectSeq(g.animationMetadata.merges,
                          LAMBDA merge : g.board[merge.to] # null)
    IN  [k \in 1 .. Len(kept) |-> mergePlan(g, kept[k])]

hasPlan(plans, i) == \E k \in 1 .. Len(plans) : plans[k].target = i

planOf(plans, i) ==
    plans[CHOOSE k \in 1 .. Len(plans) :
              /\ plans[k].target = i
              /\ \A j \in (k + 1) .. Len(plans) : plans[j].target # i]

RECURSIVE originAfter(_, _, _)
\* originFor after the first n move records.
originAfter(origin, moves, n) ==
    IF n = 0 THEN origin
    ELSE LET o == originAfter(origin, moves, n - 1)
             m == moves[n]
         IN  IF m.to \in DOMAIN o /\ o[m.to] = m.to /\ m.from # m.to
             THEN [o EXCEPT ![m.to] = m.from]
             ELSE o

originFor(boardForMotion, moves) ==
    originAfter([i \in {c \in Cells : boardForMotion[c] # null} |-> i],
                moves, Len(moves))

\* What the closure handed to requestAnimationFrame captured.
renderFrame(g) ==
    LET hasPendingSpawn == g.newTile # null
        boardNow        == g.board
        boardForMotion  == IF hasPendingSpawn /\ DOMAIN g.boardAfterMove = Cells
                           THEN g.boardAfterMove
                           ELSE boardNow
    IN  [kind            |-> "render",
         hasPendingSpawn |-> hasPendingSpawn,
         boardNow        |-> boardNow,
         boardForMotion  |-> boardForMotion,
         plans           |-> mergePlanByTarget(g),
         originFor       |-> originFor(boardForMotion, g.animationMetadata.moves)]

render(w) ==
    LET u1 == clearMergeGhosts(clearAnimationTimers(w.ui))
    IN  World(w.game, [u1 EXCEPT !.frames = Append(@, renderFrame(w.game))])

(***************************************************************************)
(* render: the animation-frame callback                                    *)
(***************************************************************************)
paintTile(g, f, i) ==
    LET isSpawnTile == f.hasPendingSpawn /\ i = g.newTile /\ f.boardNow[i] # null
        flavorIndex == f.boardForMotion[i]
    IN  IF isSpawnTile
        THEN [FreshTile EXCEPT !.empty = TRUE,
                               !.spawnFlavor = getFlavorName(f.boardNow[i])]
        ELSE IF flavorIndex # null
        THEN LET planned   == hasPlan(f.plans, i)
                 originIdx == f.originFor[i]
             IN  [FreshTile EXCEPT
                     !.flavor = IF planned
                                THEN getFlavorName(planOf(f.plans, i).preMergeFlavorIndex)
                                ELSE getFlavorName(flavorIndex),
                     !.origin = IF ~planned /\ originIdx # i THEN originIdx ELSE null]
        ELSE [FreshTile EXCEPT !.empty = TRUE]

\* The ghosts of one merge plan: one per origin that is not the target.
ghostsOf(g, plan) ==
    LET movers == SelectSeq(plan.from, LAMBDA from : from # plan.target)
    IN  [k \in 1 .. Len(movers) |->
            LET sourceFlavorIndex == at(g.boardBefore, movers[k])
            IN  [flavor  |-> getFlavorName(IF sourceFlavorIndex # null
                                           THEN sourceFlavorIndex
                                           ELSE plan.preMergeFlavorIndex),
                 from    |-> movers[k],
                 to      |-> plan.target,
                 sliding |-> FALSE]]

RECURSIVE ghostsOfPlans(_, _, _)
ghostsOfPlans(g, plans, n) ==
    IF n = 0 THEN <<>>
    ELSE ghostsOfPlans(g, plans, n - 1) \o ghostsOf(g, plans[n])

\* Slip: the timer set last fires first.
setTimerFirst(timers, t) == <<t>> \o timers

\* setTimeout: a timer fires after every pending timer whose delay is not
\* longer (all pending phase timers are set within one animation frame).
setTimer(timers, t) ==
    LET k == Cardinality({j \in 1 .. Len(timers) : timers[j].delay <= t.delay})
    IN  SubSeq(timers, 1, k) \o <<t>> \o SubSeq(timers, k + 1, Len(timers))

\* The four phase timers of one frame callback, in the order they are set.
phaseTimers(g, ghosts, plans) ==
    LET hasSlides == g.movedTiles # {} \/ Len(ghosts) > 0
        hasMerges == g.mergedTiles # {}
        slideCompleteDelay ==
            IF hasSlides
            THEN SLIDE_MS + (IF hasMerges THEN CONTACT_HOLD_MS ELSE 0)
            ELSE 0
        unlockDelay == slideCompleteDelay
        mergeCompleteDelay == IF hasMerges THEN MERGE_MS ELSE 0
        \* Math.round(MERGE_MS * 0.12)
        spawnDelay == IF hasMerges
                      THEN slideCompleteDelay + ((MERGE_MS * 12 + 50) \div 100)
                      ELSE slideCompleteDelay
        mergeEndDelay == slideCompleteDelay + mergeCompleteDelay
        cleanupAfter  == (IF spawnDelay > mergeEndDelay
                          THEN spawnDelay ELSE mergeEndDelay) + CLEANUP_BUFFER
    IN  << [kind |-> "merge",   delay |-> slideCompleteDelay, plans |-> plans],
           [kind |-> "unlock",  delay |-> unlockDelay,        plans |-> <<>>],
           [kind |-> "spawn",   delay |-> spawnDelay,         plans |-> <<>>],
           [kind |-> "cleanup", delay |-> cleanupAfter,       plans |-> <<>>] >>

RECURSIVE setTimers(_, _, _)
setTimers(timers, new, n) ==
    IF n = 0 THEN timers
    ELSE setTimer(setTimers(timers, new, n - 1), new[n])

updateStats(g, u) ==
    [u EXCEPT !.scoreDisplay = g.score, !.movesDisplay = g.moves]

\* Slip: the target of a merge is tagged sliding like any tile that moved.
paintSlidingTargets(w, f) ==
    LET g == w.game
        u == w.ui
        painted == [i \in Cells |-> paintTile(g, f, i)]
        ghosts  == u.mergeGhosts \o ghostsOfPlans(g, f.plans, Len(f.plans))
        slid    == [i \in Cells |->
                       IF i \in g.movedTiles \cup g.mergedTiles
                       THEN [painted[i] EXCEPT !.tags = @ \cup {"sliding"},
                                               !.origin = null]
                       ELSE painted[i]]
        u1 == [u EXCEPT
                 !.tiles = slid,
                 !.mergeGhosts = [k \in 1 .. Len(ghosts) |->
                                     [ghosts[k] EXCEPT !.sliding = TRUE]],
                 !.animationTimers =
                     setTimers(@, phaseTimers(g, ghosts, f.plans), 4),
                 !.previousBoardState = f.boardNow]
    IN  World(g, updateStats(g, u1))

\* The callback of render(): paint, ghosts, slides, timers, stats.
paint(w, f) ==
    LET g == w.game
        u == w.ui
        painted == [i \in Cells |-> paintTile(g, f, i)]
        ghosts  == u.mergeGhosts \o ghostsOfPlans(g, f.plans, Len(f.plans))
        slid    == [i \in Cells |->
                       IF i \in g.movedTiles /\ ~hasPlan(f.plans, i)
                       THEN [painted[i] EXCEPT !.tags = @ \cup {"sliding"},
                                               !.origin = null]
                       ELSE painted[i]]
        u1 == [u EXCEPT
                 !.tiles = slid,
                 !.mergeGhosts = [k \in 1 .. Len(ghosts) |->
                                     [ghosts[k] EXCEPT !.sliding = TRUE]],
                 !.animationTimers =
                     setTimers(@, phaseTimers(g, ghosts, f.plans), 4),
                 !.previousBoardState = f.boardNow]
    IN  World(g, updateStats(g, u1))

\* The callback of cleanupAnimations().
stripTags(w) ==
    World(w.game,
          [w.ui EXCEPT !.tiles = [i \in Cells |-> [@[i] EXCEPT !.tags = {}]]])

runFrame(w, f) == IF f.kind = "render" THEN paint(w, f) ELSE stripTags(w)

RECURSIVE runFrames(_, _, _)
\* One animation frame runs every callback registered before it, in order.
runFrames(w, frames, n) ==
    IF n = 0 THEN w
    ELSE runFrame(runFrames(w, frames, n - 1), frames[n])

(***************************************************************************)
(* checkGameEnd, executeMove, the watchdog, the queue                      *)
(***************************************************************************)
saveBestScore(g, u) ==
    IF g.score > u.bestScore THEN [u EXCEPT !.bestScore = g.score] ELSE u

showGameEnd(g, u, title) ==
    [u EXCEPT !.modalTitle = title,
              !.finalScoreDisplay = g.score,
              !.modalHidden = FALSE]

hideGameEnd(u) == [u EXCEPT !.modalHidden = TRUE]

\* Slip: the branch of a game that is over is missing.
checkGameEndOnWinOnly(w) ==
    LET g == w.game
        u == w.ui
    IN  IF g.won /\ ~g.winModalShown
        THEN World([g EXCEPT !.winModalShown = TRUE],
                   saveBestScore(g, showGameEnd(g, u, "You Won!")))
        ELSE w

checkGameEnd(w) ==
    LET g == w.game
        u == w.ui
    IN  IF g.won /\ ~g.winModalShown
        THEN World([g EXCEPT !.winModalShown = TRUE],
                   saveBestScore(g, showGameEnd(g, u, "You Won!")))
        ELSE IF g.gameOver
        THEN World(g, saveBestScore(g, showGameEnd(g, u, "Game Over")))
        ELSE w

\* Slip: the watchdog is not started.
startAnimationWatchdogNever(w) == w

startAnimationWatchdog(w) ==
    World(w.game, [w.ui EXCEPT !.animationLockTimer = TRUE])

\* What the page looked like when game.move() was called.
moveCall(u, direction, moved) ==
    [direction |-> direction,
     moved     |-> moved,
     locked    |-> u.isAnimating,
     modal     |-> ~u.modalHidden,
     inFlight  |-> u.inFlight]

\* executeMove once game.move(direction) has returned r.
afterMove(w, direction, r) ==
    LET u1 == [w.ui EXCEPT !.offered = Append(@, moveCall(w.ui, direction, r.ret))]
    IN  IF ~r.ret
        THEN [world |-> checkGameEnd(World(r.game, u1)), moved |-> FALSE]
        ELSE [world |-> startAnimationWatchdog(
                            render(World(r.game,
                                         [u1 EXCEPT !.isAnimating = TRUE,
                                                    !.inFlight = TRUE]))),
              moved |-> TRUE]

executeMove(w, direction, rnd, isRare) ==
    afterMove(w, direction, move(w.game, direction, rnd, isRare))

RECURSIVE drain(_, _, _)
\* The end of one turn of the loop, r being what executeMove returned: an
\* accepted move has taken the lock and the loop stops.
drainOn(r, rnd, isRare) ==
    IF r.moved THEN r.world ELSE drain(r.world, rnd, isRare)

RECURSIVE drainNewestFirst(_, _, _)
\* Slip: pop() instead of shift().
drainNewestFirst(w, rnd, isRare) ==
    IF ~w.ui.isAnimating /\ Len(w.ui.pendingDirections) > 0
    THEN LET n == Len(w.ui.pendingDirections)
             nextDirection == w.ui.pendingDirections[n]
             popped == World(w.game,
                             [w.ui EXCEPT !.pendingDirections = SubSeq(@, 1, n - 1)])
             r == executeMove(popped, nextDirection, rnd, isRare)
         IN  IF r.moved THEN r.world ELSE drainNewestFirst(r.world, rnd, isRare)
    ELSE w

\* The while loop of flushPendingDirection.
drain(w, rnd, isRare) ==
    IF ~w.ui.isAnimating /\ Len(w.ui.pendingDirections) > 0
    THEN LET nextDirection == Head(w.ui.pendingDirections)
             shifted == World(w.game,
                              [w.ui EXCEPT !.pendingDirections = Tail(@)])
         IN  drainOn(executeMove(shifted, nextDirection, rnd, isRare),
                     rnd, isRare)
    ELSE w

\* Slip: only the oldest queued direction is tried.
flushPendingDirectionOnce(w, rnd, isRare) ==
    IF w.ui.isAnimating \/ Len(w.ui.pendingDirections) = 0
    THEN w
    ELSE LET nextDirection == Head(w.ui.pendingDirections)
             shifted == World(w.game,
                              [w.ui EXCEPT !.pendingDirections = Tail(@)])
         IN  executeMove(shifted, nextDirection, rnd, isRare).world

flushPendingDirection(w, rnd, isRare) ==
    IF w.ui.isAnimating \/ Len(w.ui.pendingDirections) = 0
    THEN w
    ELSE drain(w, rnd, isRare)

\* The push of handleKeyPress while the lock is held.
enqueue(pendingDirections, direction) ==
    LET n == Len(pendingDirections)
        lastQueued == IF n = 0 THEN "undefined" ELSE pendingDirections[n]
    IN  IF lastQueued # direction
        THEN LET pushed == Append(pendingDirections, direction)
             IN  IF Len(pushed) > 2
                 THEN SubSeq(pushed, Len(pushed) - 1, Len(pushed))
                 ELSE pushed
        ELSE pendingDirections

\* Slip: the test of the lock is missing.
handleKeyPressUnlocked(w, key, rnd, isRare) ==
    IF ~w.ui.modalHidden THEN w
    ELSE IF key \notin Directions THEN w
    ELSE executeMove(w, key, rnd, isRare).world

\* key is the direction of the switch, "none" for any other key.
handleKeyPress(w, key, rnd, isRare) ==
    IF ~w.ui.modalHidden THEN w
    ELSE IF key \notin Directions THEN w
    ELSE IF w.ui.isAnimating
    THEN World(w.game,
               [w.ui EXCEPT !.pendingDirections = enqueue(@, key)])
    ELSE executeMove(w, key, rnd, isRare).world

(***************************************************************************)
(* interruptAnimations                                                     *)
(***************************************************************************)
syncBoardToState(w) ==
    World(w.game,
          [w.ui EXCEPT !.tiles =
              [i \in Cells |->
                  IF w.game.board[i] = null
                  THEN [FreshTile EXCEPT !.empty = TRUE]
                  ELSE [FreshTile EXCEPT
                          !.flavor = getFlavorName(w.game.board[i])]]])

\* Slip: the tiles are left as the sequence painted them.
interruptAnimationsWithoutSync(w) ==
    LET u1 == clearMergeGhosts(
                  [clearAnimationTimers(w.ui) EXCEPT !.animationLockTimer = FALSE])
        u2 == [u1 EXCEPT !.tiles = [i \in Cells |->
                  [@[i] EXCEPT !.tags = @ \ {"sliding", "spawning", "merging"}]]]
        g1 == [w.game EXCEPT !.newTile = null,
                             !.movedTiles = {},
                             !.mergedTiles = {},
                             !.animationMetadata = EmptyMetadata]
    IN  World(g1, [u2 EXCEPT !.isAnimating = FALSE, !.inFlight = FALSE])

\* The sequence in flight is abandoned: inFlight is cleared with the lock.
interruptAnimations(w) ==
    LET u1 == clearMergeGhosts(
                  [clearAnimationTimers(w.ui) EXCEPT !.animationLockTimer = FALSE])
        u2 == [u1 EXCEPT !.tiles = [i \in Cells |->
                  [@[i] EXCEPT !.tags = @ \ {"sliding", "spawning", "merging"}]]]
        w3 == syncBoardToState(World(w.game, u2))
        g1 == [w3.game EXCEPT !.newTile = null,
                              !.movedTiles = {},
                              !.mergedTiles = {},
                              !.animationMetadata = EmptyMetadata]
    IN  World(g1, [w3.ui EXCEPT !.isAnimating = FALSE, !.inFlight = FALSE])

(***************************************************************************)
(* cleanupAnimations and the timer callbacks                               *)
(***************************************************************************)
\* Slip: the spawned-index marker is left as it is.
cleanupAnimationsKeepingMarker(w, rnd, isRare) ==
    LET u1 == clearMergeGhosts(
                  [w.ui EXCEPT !.frames = Append(@, [kind |-> "cleanup"])])
        g1 == [w.game EXCEPT !.movedTiles = {},
                             !.mergedTiles = {},
                             !.animationMetadata = EmptyMetadata]
        u2 == clearAnimationTimers(
                  [u1 EXCEPT !.isAnimating = FALSE,
                             !.inFlight = FALSE,
                             !.animationLockTimer = FALSE])
        w3 == checkGameEnd(World(g1, u2))
    IN  IF w3.ui.modalHidden
        THEN flushPendingDirection(w3, rnd, isRare)
        ELSE World(w3.game, [w3.ui EXCEPT !.pendingDirections = <<>>])

cleanupAnimations(w, rnd, isRare) ==
    LET u1 == clearMergeGhosts(
                  [w.ui EXCEPT !.frames = Append(@, [kind |-> "cleanup"])])
        g1 == [w.game EXCEPT !.newTile = null,
                             !.movedTiles = {},
                             !.mergedTiles = {},
                             !.animationMetadata = EmptyMetadata]
        u2 == clearAnimationTimers(
                  [u1 EXCEPT !.isAnimating = FALSE,
                             !.inFlight = FALSE,
                             !.animationLockTimer = FALSE])
        w3 == checkGameEnd(World(g1, u2))
    IN  IF w3.ui.modalHidden
        THEN flushPendingDirection(w3, rnd, isRare)
        ELSE World(w3.game, [w3.ui EXCEPT !.pendingDirections = <<>>])

\* The callback of startAnimationWatchdog.
watchdog(w, rnd, isRare) ==
    IF w.ui.isAnimating THEN cleanupAnimations(w, rnd, isRare) ELSE w

\* Slip: the merge-start callback leaves the ghosts.
mergeTimerKeepingGhosts(w, t) ==
    LET g == w.game
        u == w.ui
    IN  World(g, (
            [u EXCEPT !.tiles =
                [i \in Cells |->
                    IF i \in g.mergedTiles
                    THEN IF hasPlan(t.plans, i)
                         THEN [@[i] EXCEPT
                                 !.empty = FALSE,
                                 !.flavor = getFlavorName(
                                     planOf(t.plans, i).finalFlavorIndex),
                                 !.tags = @ \cup {"merging"}]
                         ELSE [@[i] EXCEPT !.tags = @ \cup {"merging"}]
                    ELSE @[i]]]))

mergeTimer(w, t) ==
    LET g == w.game
        u == w.ui
    IN  World(g, clearMergeGhosts(
            [u EXCEPT !.tiles =
                [i \in Cells |->
                    IF i \in g.mergedTiles
                    THEN IF hasPlan(t.plans, i)
                         THEN [@[i] EXCEPT
                                 !.empty = FALSE,
                                 !.flavor = getFlavorName(
                                     planOf(t.plans, i).finalFlavorIndex),
                                 !.tags = @ \cup {"merging"}]
                         ELSE [@[i] EXCEPT !.tags = @ \cup {"merging"}]
                    ELSE @[i]]]))

unlockTimer(w, rnd, isRare) ==
    IF ~w.ui.isAnimating THEN w
    ELSE flushPendingDirection(
             World(w.game, [w.ui EXCEPT !.isAnimating = FALSE]), rnd, isRare)

spawnTimer(w) ==
    LET g == w.game
        u == w.ui
    IN  IF g.newTile # null
        THEN LET tile == u.tiles[g.newTile]
                 spawnFlavor == IF tile.spawnFlavor # null
                                THEN tile.spawnFlavor
                                ELSE getFlavorName(g.board[g.newTile])
             IN  World(g, [u EXCEPT !.tiles[g.newTile] =
                             [tile EXCEPT !.empty = FALSE,
                                          !.flavor = spawnFlavor,
                                          !.spawnFlavor = null,
                                          !.tags = @ \cup {"spawning"}]])
        ELSE w

cleanupTimer(w, rnd, isRare) == cleanupAnimations(w, rnd, isRare)

fire(w, t, rnd, isRare) ==
    CASE t.kind = "merge"   -> mergeTimer(w, t)
      [] t.kind = "unlock"  -> unlockTimer(w, rnd, isRare)
      [] t.kind = "spawn"   -> spawnTimer(w)
      [] t.kind = "cleanup" -> cleanupTimer(w, rnd, isRare)

(***************************************************************************)
(* constructor, newGame                                                    *)
(***************************************************************************)
newUI(g) ==
    render(World(g, initializeBoard(
        [attached           |-> TRUE,
         tiles              |-> <<>>,
         previousBoardState |-> <<>>,
         isAnimating        |-> FALSE,
         animationTimers    |-> <<>>,
         animationLockTimer |-> FALSE,
         pendingDirections  |-> <<>>,
         mergeGhosts        |-> <<>>,
         frames             |-> <<>>,
         modalHidden        |-> TRUE,
         modalTitle         |-> "",
         finalScoreDisplay  |-> 0,
         scoreDisplay       |-> 0,
         movesDisplay       |-> 0,
         bestScore          |-> 0,
         offered            |-> <<>>,
         inFlight           |-> FALSE])))

\* UI.newGame (the New Game buttons of the page and of the modal).
startNewGame(w, r1, rare1, r2, rare2) ==
    LET u1 == clearAnimationTimers(w.ui)
        u2 == [u1 EXCEPT !.isAnimating = FALSE,
                         !.inFlight = FALSE,
                         !.pendingDirections = <<>>,
                         !.animationLockTimer = FALSE]
        g1 == reset(w.game, r1, rare1, r2, rare2)
        u3 == [initializeBoard(u2) EXCEPT !.previousBoardState = <<>>]
    IN  render(World(g1, hideGameEnd(u3)))

(***************************************************************************)
(* Initial states.  The program starts from `new Game()`.  To reach the    *)
(* late game (a full board, the winning kind) within the bounds, the       *)
(* exploration also starts from a catalogue of positions of a game in      *)
(* progress, each as the engine holds it when the animation data of the    *)
(* move before has been consumed and the last key moved nothing: tracking  *)
(* sets and metadata empty, both board snapshots equal to the board, score *)
(* and move count those of the game that built every tile from spawned     *)
(* kind-0 tiles.  move() writes the tracking fields and never reads them.  *)
(***************************************************************************)
boardOf(t) == [c \in Cells |-> t[c + 1]]

\* A full board on which nothing can move; one hole or one changed cell away
\* from it lie the positions where the game ends or barely continues.
TightBoard ==
    boardOf(<<2, 3, 4, 5,
              4, 5, 2, 3,
              2, 3, 4, 5,
              4, 5, 2, 3>>)

\* Four tiles one merge below the winning kind, with a few small tiles.
NearWinBoard ==
    boardOf(<<9,    9,    9,    9,
              0,    1,    0,    2,
              null, null, 3,    null,
              null, 0,    null, null>>)

\* A full board of a game already won, its two winning tiles side by side.
PostWinBoard ==
    boardOf(<<10, 10, 7, 8,
              4,  5,  2, 3,
              2,  3,  4, 5,
              4,  5,  2, 3>>)

\* Runs of equal small tiles.
RunsBoard ==
    boardOf(<<0, 0,    0, 0,
              0, 0,    1, null,
              0, null, 0, 0,
              0, 0,    0, null>>)

PatchKinds == {null} \cup (0 .. 5)

tileCount(board) == Cardinality({i \in Cells : board[i] # null})

\* A game in progress holds at least two tiles and has not ended.
inProgress(board) ==
    /\ tileCount(board) >= 2
    /\ \/ \E c \in Cells : board[c] = null
       \/ \E c \in Cells : c % 4 # 3 /\ board[c] = board[c + 1]
       \/ \E c \in 0 .. 11 : board[c] = board[c + 4]

MidBoards ==
    {b \in {[TightBoard EXCEPT ![i] = v] : i \in Cells, v \in PatchKinds}
            \cup {NearWinBoard, PostWinBoard, RunsBoard} :
        inProgress(b)}

\* Every line of small tiles and holes, laid in the top row or, transposed, in
\* the left column of a board that holds one more row (column) of other tiles.
LineKinds == {null} \cup (0 .. 2)

rowBoard(line) ==
    [c \in Cells |->
        IF c \div 4 = 0 THEN line[(c % 4) + 1]
        ELSE IF c \div 4 = 2 THEN 3 + (c % 2)
        ELSE null]

transpose(board) == [c \in Cells |-> board[(c % 4) * 4 + (c \div 4)]]

LineBoards ==
    {b \in {rowBoard(line) : line \in [1 .. 4 -> LineKinds]}
            \cup {transpose(rowBoard(line)) : line \in [1 .. 4 -> LineKinds]} :
        inProgress(b)}

RECURSIVE tilesBuilt(_, _)
\* Over cells 0..n-1: the number of spawned kind-0 tiles the tiles are made of.
tilesBuilt(board, n) ==
    IF n = 0 THEN 0
    ELSE tilesBuilt(board, n - 1)
         + (IF board[n - 1] = null THEN 0 ELSE 2 ^ board[n - 1])

RECURSIVE scoreBuilt(_, _)
\* Over cells 0..n-1: the score of the merges that built the tiles.
scoreBuilt(board, n) ==
    IF n = 0 THEN 0
    ELSE scoreBuilt(board, n - 1)
         + (IF board[n - 1] = null THEN 0 ELSE board[n - 1] * (2 ^ board[n - 1]))

midGame(board) ==
    LET hasWon == \E i \in Cells : board[i] >= WinKind
    IN  [board          |-> board,
         score          |-> scoreBuilt(board, 16),
         moves          |-> tilesBuilt(board, 16) - 2,
         gameOver       |-> FALSE,
         won            |-> hasWon,
         winModalShown  |-> hasWon,
         movedTiles     |-> {},
         mergedTiles    |-> {},
         newTile        |-> null,
         boardBefore    |-> board,
         boardAfterMove |-> board,
         animationMetadata |-> EmptyMetadata]

\* last: op is the method called, direction the argument of move(), ret what
\* move() returned, tile what a direct call of addNewTile() returned.
NoCall == [op |-> "none", direction |-> "none", ret |-> FALSE, tile |-> null]

\* The engine on its own (game.js loaded without ui.js).
NoUI == [attached |-> FALSE]

\* No server process.
NoServer == [attached |-> FALSE]

InitNew ==
    /\ \E r1 \in Rands, r2 \in Rands, rare1 \in BOOLEAN, rare2 \in BOOLEAN :
          game = newGame(r1, rare1, r2, rare2)
    /\ calls = 0
    /\ last = [NoCall EXCEPT !.op = "new"]
    /\ ui = NoUI
    /\ clicks = 0
    /\ srv = NoServer

InitMid ==
    /\ \E b \in MidBoards : game = midGame(b)
    /\ calls = 0
    /\ last = NoCall
    /\ ui = NoUI
    /\ clicks = 0
    /\ srv = NoServer

Init == InitNew \/ InitMid

InitLines ==
    /\ \E b \in LineBoards : game = midGame(b)
    /\ calls = 0
    /\ last = NoCall
    /\ ui = NoUI
    /\ clicks = 0
    /\ srv = NoServer

(***************************************************************************)
(* Actions: one engine call each.                                          *)
(***************************************************************************)
callMove(direction) ==
    /\ LET s == slide(game, direction)
           \* Math.random() is called only when the board has changed.
           drawn  == IF s.changed THEN Rands ELSE {0}
           tossed == IF s.changed THEN BOOLEAN ELSE {FALSE}
       IN  \E rnd \in drawn, isRare \in tossed :
              LET r == finish(s, rnd, isRare)
              IN  /\ game' = r.game
                  /\ last' = [NoCall EXCEPT !.op = "move",
                                            !.direction = direction,
                                            !.ret = r.ret]
    /\ calls' = calls + 1
    /\ UNCHANGED <<ui, clicks, srv>>

Move(direction) ==
    /\ calls < MaxCalls
    /\ callMove(direction)

Reset ==
    /\ calls < MaxCalls
    /\ \E r1 \in Rands, r2 \in Rands, rare1 \in BOOLEAN, rare2 \in BOOLEAN :
          game' = reset(game, r1, rare1, r2, rare2)
    /\ last' = [NoCall EXCEPT !.op = "reset"]
    /\ calls' = calls + 1
    /\ UNCHANGED <<ui, clicks, srv>>

Next ==
    \/ \E direction \in Inputs : Move(direction)
    \/ Reset

\* The engine under any sequence of move() and reset() calls.
Spec == Init /\ [][Next]_vars

\* move() applied to every line.
LineMove(direction) ==
    /\ calls < MaxLineCalls
    /\ callMove(direction)

NextLines == \E direction \in Inputs : LineMove(direction)

SpecLines == InitLines /\ [][NextLines]_vars

\* addNewTile() called on its own, on boards with and without an empty cell.
AddNewTile ==
    /\ calls < MaxCalls
    /\ \E rnd \in Rands, isRare \in BOOLEAN :
          LET r == addNewTile(game, rnd, isRare)
          IN  /\ game' = r.game
              /\ last' = [NoCall EXCEPT !.op = "addNewTile", !.tile = r.ret]
    /\ calls' = calls + 1
    /\ UNCHANGED <<ui, clicks, srv>>

NextSpawn == AddNewTile

SpecSpawn == InitMid /\ [][NextSpawn]_vars

(***************************************************************************)
(* The page: initial states and events.  The page starts from `new UI()`   *)
(* on a new game, its first frame still pending.  As for the engine, the   *)
(* exploration also starts from positions of a game in progress, shown by  *)
(* a page at rest: every tile shows its cell, nothing is pending, the lock *)
(* is free and the modal is hidden.                                        *)
(***************************************************************************)
\* Number of user inputs (key presses and clicks on New Game) explored.
MaxInputs == 2

\* Number of those inputs that are clicks on New Game.
MaxClicks == 1

\* One merge away from the winning kind.
TwoNinesBoard ==
    [c \in Cells |-> IF c \in {0, 1} THEN 9 ELSE null]

\* One move away from a full board on which nothing can move.
LastHoleBoard == [TightBoard EXCEPT ![3] = null]

PageBoards == {TwoNinesBoard, LastHoleBoard}

settledPage(g) ==
    [newUI(g).ui EXCEPT
        !.tiles = [i \in Cells |->
                      [FreshTile EXCEPT !.flavor = getFlavorName(g.board[i]),
                                        !.empty = g.board[i] = null]],
        !.frames = <<>>,
        !.previousBoardState = g.board,
        !.scoreDisplay = g.score,
        !.movesDisplay = g.moves]

InitPageNew ==
    /\ \E r1 \in Rands, r2 \in Rands, rare1 \in BOOLEAN, rare2 \in BOOLEAN :
          game = newGame(r1, rare1, r2, rare2)
    /\ ui = newUI(game).ui
    /\ calls = 0
    /\ last = [NoCall EXCEPT !.op = "new"]
    /\ clicks = 0
    /\ srv = NoServer

InitPageMid ==
    /\ \E b \in PageBoards : game = midGame(b)
    /\ ui = settledPage(game)
    /\ calls = 0
    /\ last = NoCall
    /\ clicks = 0
    /\ srv = NoServer

InitPage == InitPageNew \/ InitPageMid

\* The handler that runs starts with an empty list of calls.
handling == World(game, [ui EXCEPT !.offered = <<>>])

anyMoved(u) == \E k \in 1 .. Len(u.offered) : u.offered[k].moved

becomes(w, op, direction) ==
    /\ game' = w.game
    /\ ui' = w.ui
    /\ last' = [NoCall EXCEPT !.op = op,
                              !.direction = direction,
                              !.ret = anyMoved(w.ui)]

\* Math.random() is called only by a handler in which a move is accepted
\* (at most one is), and which calls are accepted does not depend on it.
drawn(w)  == IF anyMoved(w.ui) THEN Rands ELSE {0}

tossed(w) == IF anyMoved(w.ui) THEN BOOLEAN ELSE {FALSE}

\* A keydown event.
keydown(key) ==
    /\ \E rnd \in drawn(handleKeyPress(handling, key, 0, FALSE)),
          isRare \in tossed(handleKeyPress(handling, key, 0, FALSE)) :
          becomes(handleKeyPress(handling, key, rnd, isRare), "key", key)
    /\ calls' = calls + 1
    /\ UNCHANGED <<clicks, srv>>

\* A click on one of the two New Game buttons.
click ==
    /\ \E r1 \in Rands, r2 \in Rands, rare1 \in BOOLEAN, rare2 \in BOOLEAN :
          becomes(startNewGame(handling, r1, rare1, r2, rare2), "newGame", "none")
    /\ calls' = calls + 1
    /\ clicks' = clicks + 1
    /\ UNCHANGED srv

KeyPress(key) ==
    /\ calls < MaxInputs
    /\ keydown(key)

NewGameClick ==
    /\ calls < MaxInputs
    /\ clicks < MaxClicks
    /\ click

\* An animation frame: every pending frame callback runs.
Frame ==
    /\ Len(ui.frames) > 0
    /\ becomes(runFrames(World(game, [ui EXCEPT !.offered = <<>>, !.frames = <<>>]),
                         ui.frames, Len(ui.frames)),
               "frame", "none")
    /\ UNCHANGED <<calls, clicks, srv>>

\* The phase timer that is due first fires.
TimerFire ==
    /\ Len(ui.animationTimers) > 0
    /\ LET t == Head(ui.animationTimers)
           w == World(game, [ui EXCEPT !.offered = <<>>,
                                       !.animationTimers = Tail(@)])
       IN  \E rnd \in drawn(fire(w, t, 0, FALSE)),
              isRare \in tossed(fire(w, t, 0, FALSE)) :
              becomes(fire(w, t, rnd, isRare), t.kind, "none")
    /\ UNCHANGED <<calls, clicks, srv>>

\* The watchdog timer fires.
WatchdogFire ==
    /\ ui.animationLockTimer
    /\ LET w == World(game, [ui EXCEPT !.offered = <<>>,
                                       !.animationLockTimer = FALSE])
       IN  \E rnd \in drawn(watchdog(w, 0, FALSE)),
              isRare \in tossed(watchdog(w, 0, FALSE)) :
              becomes(watchdog(w, rnd, isRare), "watchdog", "none")
    /\ UNCHANGED <<calls, clicks, srv>>

NextPage ==
    \/ \E key \in Inputs : KeyPress(key)
    \/ NewGameClick
    \/ Frame
    \/ TimerFire
    \/ WatchdogFire

\* The page under any interleaving of user inputs, frames and timers.
SpecPage == InitPage /\ [][NextPage]_vars

\* Number of key presses explored from a crowded board.
MaxKeys == 4

\* Two holes in the last column: two directions move, the game goes on.
TwoHolesBoard == [TightBoard EXCEPT ![3] = null, ![7] = null]

\* A crowded board one merge away from the winning kind.
CrowdedNinesBoard == [TightBoard EXCEPT ![0] = 9, ![1] = 9, ![15] = null]

CrowdedBoards == {TwoHolesBoard, CrowdedNinesBoard}

InitKeys ==
    /\ \E b \in CrowdedBoards : game = midGame(b)
    /\ ui = settledPage(game)
    /\ calls = 0
    /\ last = NoCall
    /\ clicks = 0
    /\ srv = NoServer

KeyDown(key) ==
    /\ calls < MaxKeys
    /\ keydown(key)

NextKeys ==
    \/ \E key \in Inputs : KeyDown(key)
    \/ Frame
    \/ TimerFire
    \/ WatchdogFire

\* A longer run of keys on a crowded board, where few moves are possible;
\* nobody clicks New Game.
SpecKeys == InitKeys /\ [][NextKeys]_vars

\* A step of the watchdog timer: WatchdogFire is the one action that leaves
\* "watchdog" in last.op, and a pending watchdog timer is its whole guard.
WatchdogFired == ui.animationLockTimer /\ last'.op = "watchdog"

\* WF_vars(WatchdogFire) written out: a watchdog timer that is set fires,
\* or is cleared by the cleanup that runs first.
WatchdogFair ==
    \/ []<>(~ui.animationLockTimer)
    \/ []<><<WatchdogFired>>_vars

\* Keys on a crowded board with a watchdog timer that fires once it is set,
\* while frame callbacks and phase timers may be late without limit or never
\* run.
SpecWatchdog == InitKeys /\ [][NextKeys]_vars /\ WatchdogFair

\* A step of Frame, which is enabled when a frame callback is pending and
\* is the one action that leaves "frame" in last.op.
FrameRan == Len(ui.frames) > 0 /\ last'.op = "frame"

\* WF_vars(Frame) written out: the browser runs pending frame callbacks.
FrameFair ==
    \/ []<>(Len(ui.frames) = 0)
    \/ []<><<FrameRan>>_vars

\* A step of TimerFire, which is enabled when a phase timer is pending.
TimerFired ==
    /\ Len(ui.animationTimers) > 0
    /\ last'.op \in {"merge", "unlock", "spawn", "cleanup"}

\* WF_vars(TimerFire) written out: a phase timer that is set fires, or is
\* cleared.
TimerFair ==
    \/ []<>(Len(ui.animationTimers) = 0)
    \/ []<><<TimerFired>>_vars

\* Keys on a crowded board under the browser's scheduling: pending frame
\* callbacks run, and timers that are set and not cleared fire.
SpecScheduled ==
    InitKeys /\ [][NextKeys]_vars /\ FrameFair /\ TimerFair /\ WatchdogFair

\* Number of calls of interruptAnimations() explored.
MaxInterrupts == 1

\* A call of ui.interruptAnimations(), which no handler of the page makes: it
\* is open to any caller, at any point between two callbacks.
Interrupt ==
    /\ clicks < MaxInterrupts
    /\ becomes(interruptAnimations(handling), "interrupt", "none")
    /\ clicks' = clicks + 1
    /\ UNCHANGED <<calls, srv>>

NextInterrupt ==
    \/ \E key \in Inputs : KeyPress(key)
    \/ Frame
    \/ TimerFire
    \/ WatchdogFire
    \/ Interrupt

\* The page with its keys and callbacks, interrupted at most once.
SpecInterrupt == InitPage /\ [][NextInterrupt]_vars

\* Milliseconds between two readings of the clock that are told apart.
TickMs == 30000

(***************************************************************************)
(* The leaderboard server (src/unnamed/part_002).  A request handler is    *)
(* an operator from the server record to the server record it leaves; an   *)
(* await splits a handler into the steps between which other requests run. *)
(* toInt() has been applied to the numbers of a payload and of the limit   *)
(* parameter, and sanitizeUsername() to the username ("" where it returns  *)
(* null); NaN stands for every input toInt() turns into NaN.               *)
(***************************************************************************)
RATE_LIMIT_WINDOW_MS == 60000

RATE_LIMIT_MAX == 15

DEFAULT_LIMIT == 20

MAX_LIMIT == 100

\* Number.NaN, a value no request sends as a number.
NaN == -1000000000

isInteger(x) == x # NaN

Min(a, b) == IF a < b THEN a ELSE b

Max(a, b) == IF a > b THEN a ELSE b

validateScorePayload(payload) ==
    IF payload.username = ""
    THEN [ok |-> FALSE, error |-> "Invalid username (3-16 chars)."]
    ELSE IF ~isInteger(payload.score) \/ payload.score < 0 \/ payload.score > 10000000
    THEN [ok |-> FALSE, error |-> "Invalid score."]
    ELSE IF ~isInteger(payload.moves) \/ payload.moves < 0 \/ payload.moves > 100000
    THEN [ok |-> FALSE, error |-> "Invalid move count."]
    ELSE IF payload.maxTile # null
            /\ (~isInteger(payload.maxTile) \/ payload.maxTile < 0 \/ payload.maxTile > 20)
    THEN [ok |-> FALSE, error |-> "Invalid maxTile."]
    ELSE [ok |-> TRUE, value |-> payload]

\* Slip: ties on the score are broken by the larger move count.
compareMovesDescending(a, b) ==
    IF b.score # a.score THEN b.score - a.score
    ELSE IF a.moves # b.moves THEN b.moves - a.moves
    ELSE a.createdAt - b.createdAt

\* The comparator of sorted(): negative when a goes before b.
compare(a, b) ==
    IF b.score # a.score THEN b.score - a.score
    ELSE IF a.moves # b.moves THEN a.moves - b.moves
    ELSE a.createdAt - b.createdAt

\* The comparator puts entries[i] before entries[j]; Array.prototype.sort is
\* stable, so equal entries keep the order they came in.
precedes(entries, i, j) ==
    \/ compare(entries[i], entries[j]) < 0
    \/ compare(entries[i], entries[j]) = 0 /\ i < j

\* A function on 1 .. n written out as the sequence of its values.
array(f) == f \o <<>>

\* The position each entry takes: one more than the number of entries the
\* comparator puts before it.
places(entries) ==
    array([i \in 1 .. Len(entries) |->
        1 + Cardinality({j \in 1 .. Len(entries) : precedes(entries, j, i)})])

\* The entries, each at its place.
placed(entries, place) ==
    array([k \in 1 .. Len(entries) |->
        entries[CHOOSE i \in 1 .. Len(entries) : place[i] = k]])

sorted(entries) == placed(entries, places(entries))

slice(entries, end) == SubSeq(entries, 1, Min(end, Len(entries)))

withRanks(entries) ==
    [idx \in 1 .. Len(entries) |->
        [rank      |-> idx,
         username  |-> entries[idx].username,
         score     |-> entries[idx].score,
         moves     |-> entries[idx].moves,
         maxTile   |-> entries[idx].maxTile,
         createdAt |-> entries[idx].createdAt]]

sendJson(s, statusCode, entries) ==
    [s EXCEPT !.response = [status |-> statusCode, entries |-> entries]]

\* Slip: a request that is refused is counted as well.
checkRateLimitCountingRefused(s, ip) ==
    LET now    == s.now
        bucket == s.perIpRequests[ip]
        recent == SelectSeq(bucket, LAMBDA ts : now - ts < RATE_LIMIT_WINDOW_MS)
    IN  IF Len(recent) >= RATE_LIMIT_MAX
        THEN [srv |-> [s EXCEPT !.perIpRequests[ip] = Append(recent, now)],
              ok  |-> FALSE]
        ELSE [srv |-> [s EXCEPT !.perIpRequests[ip] = Append(recent, now),
                                !.passed[ip] = Append(@, now)],
              ok  |-> TRUE]

\* passed is the history of the requests the limiter let through.
checkRateLimit(s, ip) ==
    LET now    == s.now
        bucket == s.perIpRequests[ip]
        recent == SelectSeq(bucket, LAMBDA ts : now - ts < RATE_LIMIT_WINDOW_MS)
    IN  IF Len(recent) >= RATE_LIMIT_MAX
        THEN [srv |-> [s EXCEPT !.perIpRequests[ip] = recent], ok |-> FALSE]
        ELSE [srv |-> [s EXCEPT !.perIpRequests[ip] = Append(recent, now),
                                !.passed[ip] = Append(@, now)],
              ok  |-> TRUE]

\* POST /api/leaderboard once the payload has been validated: the handler
\* goes on to await readEntries().
validated(s, ip, validation) ==
    IF ~validation.ok
    THEN sendJson(s, 400, <<>>)
    ELSE [s EXCEPT !.inflight =
                       Append(@, [ip |-> ip, value |-> validation.value,
                                  pc |-> "read", id |-> 0])]

\* POST /api/leaderboard once checkRateLimit has returned limit.
limited(limit, ip, payload) ==
    IF ~limit.ok
    THEN sendJson(limit.srv, 429, <<>>)
    ELSE validated(limit.srv, ip, validateScorePayload(payload))

\* POST /api/leaderboard up to its first await that matters.
arrive(s, ip, payload) == limited(checkRateLimit(s, ip), ip, payload)

queueWrite(s, entries, id) ==
    [s EXCEPT !.writeChain = Append(@, [entries |-> entries, id |-> id])]

\* Slip: the slice is taken of the entries as they were pushed.
truncateUnsorted(entries) == slice(entries, MAX_ENTRIES)

\* sorted(entries).slice(0, MAX_ENTRIES)
truncate(entries) == slice(sorted(entries), MAX_ENTRIES)

\* readEntries() has returned to request k: the entry is pushed and the
\* write is queued.  randomUUID() is the serial number of the entry; the
\* entry pushed last is remembered in s.entry.
readStep(s, k) ==
    LET id    == s.created + 1
        entry == [id        |-> id,
                  username  |-> s.inflight[k].value.username,
                  score     |-> s.inflight[k].value.score,
                  moves     |-> s.inflight[k].value.moves,
                  maxTile   |-> s.inflight[k].value.maxTile,
                  createdAt |-> s.now]
    IN  queueWrite([s EXCEPT !.created = id,
                             !.entry = entry,
                             !.inflight[k].pc = "write",
                             !.inflight[k].id = id],
                   truncate(Append(s.file, entry)), id)

\* The write at the head of the chain is done (temp file renamed), and the
\* request that queued it answers 201.  acked is the history of the entries
\* so acknowledged.
writeStep(s) ==
    LET write == Head(s.writeChain)
    IN  sendJson([s EXCEPT !.file = write.entries,
                           !.writeChain = Tail(@),
                           !.inflight = SelectSeq(@, LAMBDA r : r.id # write.id),
                           !.acked = @ \cup {write.id}],
                 201, <<>>)

\* A request handled with no other request in between.
served(s) ==
    IF Len(s.inflight) = 0 THEN s ELSE writeStep(readStep(s, Len(s.inflight)))

post(s, ip, payload) == served(arrive(s, ip, payload))

\* GET /api/leaderboard?limit=limitParam
get(s, limitParam) ==
    LET limit == IF isInteger(limitParam)
                 THEN Max(1, Min(MAX_LIMIT, limitParam))
                 ELSE DEFAULT_LIMIT
    IN  sendJson(s, 200, withRanks(slice(sorted(s.file), limit)))

(***************************************************************************)
(* The server: initial state and actions.                                  *)
(***************************************************************************)
\* The client addresses getIp() tells apart.
Ips == {"a", "b"}

\* The server process after ensureStorage() on an empty data directory.
newServer ==
    [attached      |-> TRUE,
     now           |-> 0,
     perIpRequests |-> [ip \in Ips |-> <<>>],
     file          |-> <<>>,
     writeChain    |-> <<>>,
     inflight      |-> <<>>,
     created       |-> 0,
     entry         |-> [id |-> 0],
     response      |-> [status |-> 0, entries |-> <<>>],
     passed        |-> [ip \in Ips |-> <<>>],
     acked         |-> {}]

\* No engine: the server runs without the game.
NoGame == [attached |-> FALSE]

InitServer ==
    /\ game = NoGame
    /\ calls = 0
    /\ last = NoCall
    /\ ui = NoUI
    /\ clicks = 0
    /\ srv = newServer

\* A payload that validates, with the given score and move count.
scorePayload(score, moves) ==
    [username |-> "ann", score |-> score, moves |-> moves, maxTile |-> null]

\* A POST /api/leaderboard request, handled to its response.
postRequest(ip, payload) ==
    /\ srv' = post(srv, ip, payload)
    /\ last' = [NoCall EXCEPT !.op = "post", !.direction = ip]
    /\ calls' = calls + 1
    /\ UNCHANGED <<game, ui, clicks>>

\* A GET /api/leaderboard request.
getRequest(limitParam) ==
    /\ srv' = get(srv, limitParam)
    /\ last' = [NoCall EXCEPT !.op = "get", !.tile = limitParam]
    /\ calls' = calls + 1
    /\ UNCHANGED <<game, ui, clicks>>

\* Date.now() advances by TickMs.
tick ==
    /\ srv' = [srv EXCEPT !.now = @ + TickMs]
    /\ last' = [NoCall EXCEPT !.op = "tick"]
    /\ UNCHANGED <<game, calls, ui, clicks>>

LimiterPost(ip) ==
    /\ calls < MaxLimiterPosts
    /\ postRequest(ip, scorePayload(0, 0))

LimiterTick ==
    /\ srv.now < MaxLimiterTicks * TickMs
    /\ tick

NextLimiter ==
    \/ \E ip \in Ips : LimiterPost(ip)
    \/ LimiterTick

\* Score submissions from two addresses, one request at a time, while the
\* clock advances.
SpecLimiter == InitServer /\ [][NextLimiter]_vars

\* Entry i of a file written before the server started.
seedEntry(i) ==
    [id        |-> -i,
     username  |-> "bob",
     score     |-> i % 3,
     moves     |-> i % 2,
     maxTile   |-> null,
     createdAt |-> -i]

\* A file of n entries as the POST handler leaves it.
seedFile(n) == truncate(array([i \in 1 .. n |-> seedEntry(i)]))

\* The server starts on an empty file or on a full one.
InitStored ==
    /\ game = NoGame
    /\ calls = 0
    /\ last = NoCall
    /\ ui = NoUI
    /\ clicks = 0
    /\ \E n \in {0, MAX_ENTRIES} : srv = [newServer EXCEPT !.file = seedFile(n)]

\* The payloads sent: valid ones of two scores and two move counts, and one
\* without a username.
ServerPayloads ==
    {scorePayload(score, moves) : score \in {0, 3}, moves \in {0, 1}}
        \cup {[scorePayload(3, 0) EXCEPT !.username = ""]}

\* The limit parameter: absent or not a number, or an integer.
LimitParams == {NaN, -1, 0, 1, 2, 20, 21, 100, 150}

ServerPost(payload) ==
    /\ calls < MaxRequests
    /\ postRequest("a", payload)

ServerGet(limitParam) ==
    /\ calls < MaxRequests
    /\ getRequest(limitParam)

ServerTick ==
    /\ srv.now < MaxServerTicks * TickMs
    /\ tick

NextServer ==
    \/ \E payload \in ServerPayloads : ServerPost(payload)
    \/ \E limitParam \in LimitParams : ServerGet(limitParam)
    \/ ServerTick

\* Submissions and readings of the leaderboard, one request at a time.
SpecServer == InitStored /\ [][NextServer]_vars

\* Requests in flight at once: each await of the POST handler is a step.
MaxConcurrent == 3

\* A POST arrives and runs to its await of readEntries().
ConcurrentArrive(ip, payload) ==
    /\ calls < MaxConcurrent
    /\ srv' = arrive(srv, ip, payload)
    /\ last' = [NoCall EXCEPT !.op = "arrive", !.direction = ip]
    /\ calls' = calls + 1
    /\ UNCHANGED <<game, ui, clicks>>

\* readEntries() returns to one of the waiting requests, which runs to its
\* await of queueWrite().
ConcurrentRead(k) ==
    /\ k \in 1 .. Len(srv.inflight)
    /\ srv.inflight[k].pc = "read"
    /\ srv' = readStep(srv, k)
    /\ last' = [NoCall EXCEPT !.op = "read", !.direction = srv.inflight[k].ip]
    /\ UNCHANGED <<game, calls, ui, clicks>>

\* The write at the head of the chain completes and its request answers.
ConcurrentWrite ==
    /\ Len(srv.writeChain) > 0
    /\ srv' = writeStep(srv)
    /\ last' = [NoCall EXCEPT !.op = "write"]
    /\ UNCHANGED <<game, calls, ui, clicks>>

ConcurrentGet ==
    /\ calls < MaxConcurrent
    /\ getRequest(NaN)

NextConcurrent ==
    \/ \E ip \in Ips, score \in {0, 3} : ConcurrentArrive(ip, scorePayload(score, 0))
    \/ \E k \in 1 .. MaxConcurrent : ConcurrentRead(k)
    \/ ConcurrentWrite
    \/ ConcurrentGet

\* Submissions whose steps interleave, on an empty file.
SpecConcurrent == InitServer /\ [][NextConcurrent]_vars


(***************************************************************************)
(* Properties.  A step of an engine call is recognised by the call counter *)
(* and by `last`; the unprimed `game` is the engine before the call, the   *)
(* primed one the engine after it.                                         *)
(***************************************************************************)
MoveCall == calls' = calls + 1 /\ last'.op = "move"

Accepted == MoveCall /\ last'.ret

Rejected == MoveCall /\ ~last'.ret

\* The four lines of a direction, each in reading order: the cell the tiles
\* move toward comes first.
readingLines(direction) ==
    CASE direction = "left"  -> {[k \in 1 .. 4 |-> 4 * r + (k - 1)] : r \in 0 .. 3}
      [] direction = "right" -> {[k \in 1 .. 4 |-> 4 * r + (4 - k)] : r \in 0 .. 3}
      [] direction = "up"    -> {[k \in 1 .. 4 |-> 4 * (k - 1) + c] : c \in 0 .. 3}
      [] direction = "down"  -> {[k \in 1 .. 4 |-> 4 * (4 - k) + c] : c \in 0 .. 3}

alongLine(board, line) == [k \in 1 .. 4 |-> board[line[k]]]

origins(merge) == {merge.from[1], merge.from[2]}

\* What C1 says of one move: before is the board before it, after the board
\* after the slide and before the spawn, merges the merge records.
MergesArePairwise(direction, before, after, merges) ==
    /\ \A m \in 1 .. Len(merges) :
          LET a == merges[m].from[1]
              b == merges[m].from[2]
              t == merges[m].to
          IN  \* two tiles of equal kind ...
              /\ a # b
              /\ before[a] # null
              /\ before[a] = before[b]
              \* ... next to each other once the holes of their line are dropped
              /\ \E line \in readingLines(direction) :
                    \E p \in 1 .. 4, q \in 1 .. 4 :
                        /\ p < q
                        /\ line[p] = a
                        /\ line[q] = b
                        /\ \A x \in (p + 1) .. (q - 1) : before[line[x]] = null
                        /\ \E w \in 1 .. 4 : line[w] = t
              \* the result is one kind up, not merged a second time
              /\ after[t] = before[a] + 1
    /\ \A m \in 1 .. Len(merges), n \in 1 .. Len(merges) :
          m # n => /\ origins(merges[m]) \cap origins(merges[n]) = {}
                   /\ merges[m].to # merges[n].to
    \* every tile that disappeared did so in a recorded merge
    /\ tileCount(before) - tileCount(after) = Len(merges)
    /\ \A line \in readingLines(direction) :
          /\ alongLine(before, line) = <<0, 0, 0, 0>>
                => alongLine(after, line) = <<1, 1, null, null>>
          /\ alongLine(before, line) = <<0, 0, 1, null>>
                => alongLine(after, line) = <<1, 1, null, null>>

\* C1: in every accepted move, every merge combines two equal-kind tiles that
\* are adjacent in their line's compacted reading order, no tile takes part in
\* two merges, and a merged result is not merged again: [0,0,0,0] gives
\* [1,1,null,null] and so does [0,0,1,null], in every direction.
C1_MergePairsOnce ==
    [][Accepted =>
          MergesArePairwise(last'.direction, game.board, game'.boardAfterMove,
                            game'.animationMetadata.merges)]_vars

\* A column of four kind-0 tiles moved down has become [1,1,null,null] in
\* reading order, by two merges.
C1_Witness ==
    /\ last.op = "move"
    /\ last.ret
    /\ last.direction = "down"
    /\ \A k \in 0 .. 3 : game.boardBefore[4 * k] = 0
    /\ game.boardAfterMove[12] = 1
    /\ game.boardAfterMove[8] = 1
    /\ game.boardAfterMove[4] = null
    /\ game.boardAfterMove[0] = null
    /\ Len(game.animationMetadata.merges) = 2

RECURSIVE mergePoints(_, _, _)
\* The sum of 2^(k+1) over the first n merge records, k the kind merged.
mergePoints(merges, before, n) ==
    IF n = 0 THEN 0
    ELSE mergePoints(merges, before, n - 1) + 2 ^ (before[merges[n].from[1]] + 1)

adjacent(a, b) ==
    \/ a \div 4 = b \div 4 /\ (a - b = 1 \/ b - a = 1)
    \/ a % 4 = b % 4 /\ (a - b = 4 \/ b - a = 4)

noMovesLeft(board) ==
    /\ \A c \in Cells : board[c] # null
    /\ \A a \in Cells, b \in Cells : adjacent(a, b) => board[a] # board[b]

\* C3: in every reachable state gameOver is true exactly when the board has
\* no empty cell and no two horizontally or vertically adjacent equal kinds.
C3_GameOverIffStuck == game.gameOver <=> noMovesLeft(game.board)

\* A move has ended the game.
C3_Witness == game.gameOver /\ last.op = "move" /\ last.ret

\* C4: an accepted move increments the move count by one and spawns exactly
\* one tile: newTile is an index, empty in boardAfterMove, of kind 0 or 1 in
\* board, and board equals boardAfterMove everywhere else.
C4_AcceptedMoveSpawnsOne ==
    [][Accepted =>
          /\ game'.moves = game.moves + 1
          /\ game'.newTile \in Cells
          /\ game'.boardAfterMove[game'.newTile] = null
          /\ game'.board[game'.newTile] \in {0, 1}
          /\ \A c \in Cells \ {game'.newTile} :
                game'.board[c] = game'.boardAfterMove[c]]_vars

\* An accepted move has spawned the rare kind.
C4_Witness ==
    /\ last.op = "move"
    /\ last.ret
    /\ game.newTile \in Cells
    /\ game.board[game.newTile] = 1
    /\ game.boardAfterMove[game.newTile] = null

\* C5: a rejected move leaves board, score, move count, gameOver and won as
\* they were, and the same direction again, at once, is rejected again.
C5_RejectedMoveChangesNothing ==
    [][/\ Rejected =>
             /\ game'.board = game.board
             /\ game'.score = game.score
             /\ game'.moves = game.moves
             /\ game'.gameOver = game.gameOver
             /\ game'.won = game.won
       /\ (/\ last.op = "move"
           /\ ~last.ret
           /\ MoveCall
           /\ last'.direction = last.direction) =>
             /\ ~last'.ret
             /\ game'.board = game.board]_vars

\* A direction that moves nothing was rejected in a game that goes on.
C5_Witness ==
    /\ last.op = "move"
    /\ ~last.ret
    /\ last.direction \in Directions
    /\ ~game.gameOver
    /\ calls >= 2

\* C6, in the case the claim singles out (the data of the accepted move before
\* not yet consumed): a rejected move leaves the animation bookkeeping
\* exactly as it was.
C6_RejectedMoveKeepsBookkeeping ==
    [][(Rejected /\ game.newTile # null) =>
          /\ game'.animationMetadata = game.animationMetadata
          /\ game'.movedTiles = game.movedTiles
          /\ game'.mergedTiles = game.mergedTiles
          /\ game'.boardBefore = game.boardBefore
          /\ game'.boardAfterMove = game.boardAfterMove
          /\ game'.newTile = game.newTile]_vars

\* C7: addNewTile with an empty cell turns exactly one empty cell into kind 0
\* or 1 and returns its index; on a full board it returns null and leaves the
\* board as it was.
C7_SpawnOnlyIntoEmpty ==
    [][(calls' = calls + 1 /\ last'.op = "addNewTile") =>
          IF \E c \in Cells : game.board[c] = null
          THEN /\ last'.tile \in Cells
               /\ game.board[last'.tile] = null
               /\ game'.board[last'.tile] \in {0, 1}
               /\ \A c \in Cells \ {last'.tile} : game'.board[c] = game.board[c]
          ELSE /\ last'.tile = null
               /\ game'.board = game.board]_vars

\* addNewTile has filled the only empty cell of a board.
C7_Witness ==
    /\ last.op = "addNewTile"
    /\ last.tile \in Cells
    /\ tileCount(game.board) = 16

\* C8: after construction and after every reset the board has 16 cells, two
\* of them tiles of kind 0 or 1, and everything else is as new.
C8_FreshAfterReset ==
    last.op \in {"new", "reset"} =>
        /\ DOMAIN game.board = Cells
        /\ tileCount(game.board) = 2
        /\ \A c \in Cells : game.board[c] \in {null, 0, 1}
        /\ game.score = 0
        /\ game.moves = 0
        /\ ~game.gameOver
        /\ ~game.won
        /\ ~game.winModalShown
        /\ game.newTile = null
        /\ game.animationMetadata = EmptyMetadata

\* A reset that followed another call.
C8_Witness == last.op = "reset" /\ calls >= 2

\* C9: once gameOver is true every move returns false and leaves the whole
\* engine state as it was.
C9_GameOverIsTerminal ==
    [][(game.gameOver /\ MoveCall) => (~last'.ret /\ game' = game)]_vars

\* A move was refused because the game is over.
C9_Witness == game.gameOver /\ last.op = "move" /\ ~last.ret

\* C10: a winning tile on the board after an accepted move sets won, and no
\* move ever clears won.
C10_WonIsOneWay ==
    [][MoveCall =>
          /\ (last'.ret /\ \E c \in Cells : game'.board[c] = WinKind) => game'.won
          /\ game.won => game'.won]_vars

\* won survives the move that merged the winning tiles away.
C10_Witness ==
    /\ last.op = "move"
    /\ last.ret
    /\ game.won
    /\ \A c \in Cells : game.board[c] # WinKind

KeyStep == calls' = calls + 1 /\ last'.op = "key"

\* C12: once the winning kind has been reached and the win notification has
\* been shown, a key press for a direction that changes the board, made while
\* the lock is free, is accepted as a move of the same game.
C12_PlayContinuesAfterWin ==
    [][(/\ KeyStep
        /\ game.won
        /\ game.winModalShown
        /\ ~game.gameOver
        /\ ~ui.isAnimating
        /\ last'.direction \in Directions
        /\ slide(game, last'.direction).changed) =>
          /\ last'.ret
          /\ game'.moves = game.moves + 1]_vars

\* C13: game.move() is never called while isAnimating is true, whatever
\* handler or callback makes the call.
C13_NoMoveWhileLocked ==
    [][\A k \in 1 .. Len(ui'.offered) : ~ui'.offered[k].locked]_vars

\* A key pressed while the lock was held has been offered to the engine, and
\* accepted, by the unlock timer.
C13_Witness ==
    /\ last.op = "unlock"
    /\ Len(ui.offered) > 0
    /\ last.ret
    /\ ui.isAnimating

\* C14: between the acceptance of a move and the run of that move's cleanup
\* no other move is accepted: a call of game.move() made while a move is in
\* flight (accepted, its cleanup not yet run) is not accepted.
C14_CleanupBeforeNextMove ==
    [][\A k \in 1 .. Len(ui'.offered) :
          ui'.offered[k].moved => ~ui'.offered[k].inFlight]_vars

\* C19: while the modal is displayed no move is applied to the engine: no
\* call of game.move() made with the modal visible is accepted, whichever
\* handler makes it, and from a state with the modal visible every step but
\* New Game leaves board, score and move count as they were and the modal
\* visible; New Game hides the modal and starts a fresh game.
C19_NoMoveWhileModal ==
    [][/\ \A k \in 1 .. Len(ui'.offered) :
             ui'.offered[k].modal => ~ui'.offered[k].moved
       /\ (~ui.modalHidden /\ last'.op # "newGame") =>
             /\ game'.board = game.board
             /\ game'.score = game.score
             /\ game'.moves = game.moves
             /\ ~ui'.modalHidden
       /\ (calls' = calls + 1 /\ last'.op = "newGame") =>
             /\ ui'.modalHidden
             /\ ~ui'.isAnimating
             /\ game'.score = 0
             /\ game'.moves = 0]_vars

queueInOrder(q) ==
    /\ Len(q) <= 2
    /\ \A k \in 1 .. (Len(q) - 1) : q[k] # q[k + 1]

\* The queue after a key pressed while the lock is held, as C15 states it.
queueAfterKey(q, key) ==
    IF Len(q) > 0 /\ q[Len(q)] = key THEN q
    ELSE IF Len(q) = 2 THEN <<q[2], key>>
    ELSE Append(q, key)

\* C15: the queue never holds more than 2 directions nor two equal ones next
\* to each other; a direction key pressed while the lock is held is dropped
\* if it equals the tail, otherwise appended, the oldest entry discarded
\* beyond 2, and is not offered to the engine; a key pressed while the lock
\* is free is not queued.
C15_QueueDiscipline ==
    [][/\ queueInOrder(ui.pendingDirections)
       /\ queueInOrder(ui'.pendingDirections)
       /\ (KeyStep /\ ui.isAnimating /\ last'.direction \in Directions) =>
             /\ ui'.pendingDirections
                   = queueAfterKey(ui.pendingDirections, last'.direction)
             /\ Len(ui'.offered) = 0
       /\ (KeyStep /\ ~ui.isAnimating) =>
             ui'.pendingDirections = ui.pendingDirections]_vars

\* A step that releases the lock while directions are queued.
Release ==
    /\ ui.isAnimating
    /\ Len(ui.pendingDirections) > 0
    /\ last'.op \in {"unlock", "cleanup", "watchdog"}

\* The queue q was drained as C16 states it: its entries offered oldest
\* first, the rejected ones discarded, the first accepted one taking the lock
\* again and leaving the rest queued; with none accepted the queue is empty.
Drained(q) ==
    LET n == Len(ui'.offered)
    IN  /\ n >= 1
        /\ n <= Len(q)
        /\ \A k \in 1 .. n : /\ ui'.offered[k].direction = q[k]
                              /\ ~ui'.offered[k].locked
        /\ \A k \in 1 .. (n - 1) : ~ui'.offered[k].moved
        /\ IF ui'.offered[n].moved
           THEN /\ ui'.isAnimating
                /\ ui'.pendingDirections = SubSeq(q, n + 1, Len(q))
           ELSE /\ n = Len(q)
                /\ ui'.pendingDirections = <<>>
                /\ ~ui'.isAnimating

\* C16 as claimed: whenever the lock is released with a non-empty queue, the
\* queue is drained in FIFO order up to the first accepted direction.
C16_DrainOnEveryRelease ==
    [][Release => Drained(ui.pendingDirections)]_vars

\* The release is a cleanup whose checkGameEnd shows (or leaves) the modal.
EndsInModal ==
    /\ last'.op \in {"cleanup", "watchdog"}
    /\ \/ ~ui.modalHidden
       \/ game.won /\ ~game.winModalShown
       \/ game.gameOver

\* C16 as amended: a release that does not end in the modal drains the queue
\* in FIFO order up to the first accepted direction; a cleanup that ends in
\* the modal empties the queue and offers nothing to the engine.
C16_DrainUnlessModal ==
    [][Release =>
          IF EndsInModal
          THEN /\ Len(ui'.offered) = 0
               /\ ui'.pendingDirections = <<>>
               /\ ~ui'.isAnimating
               /\ ~ui'.modalHidden
          ELSE Drained(ui.pendingDirections)]_vars

\* The unlock timer offered two queued directions: the older was rejected
\* and discarded, the newer accepted.
C16_Witness ==
    /\ last.op = "unlock"
    /\ Len(ui.offered) = 2
    /\ ~ui.offered[1].moved
    /\ ui.offered[2].moved
    /\ ui.offered[1].direction # ui.offered[2].direction
    /\ ui.isAnimating

\* The move counts at which the lock can be taken under SpecWatchdog.
LockMoves ==
    {midGame(b).moves + k : b \in CrowdedBoards, k \in 1 .. MaxKeys}

\* C17: while the lock is held the watchdog timer is pending, and the lock
\* taken by a move is released (isAnimating false, or cleared and taken again
\* by a later move) even if no frame callback and no phase timer ever runs.
C17_LockIsReleased ==
    /\ [](ui.isAnimating => ui.animationLockTimer)
    /\ \A n \in LockMoves :
          (ui.isAnimating /\ game.moves = n)
              ~> ~(ui.isAnimating /\ game.moves = n)

\* The watchdog has released a lock that no timer of the move released: the
\* frame callback of the move is still pending.
C17_Witness ==
    /\ last.op = "watchdog"
    /\ ~ui.isAnimating
    /\ ~ui.animationLockTimer
    /\ game.newTile = null
    /\ \E k \in 1 .. Len(ui.frames) : ui.frames[k].kind = "render"

\* A frame callback that render() created for an accepted move: the board it
\* slides (the board before the spawn) differs from the board it captured.
\* The constructor and newGame() render a game whose boardAfterMove is empty.
ofMove(f) == f.kind = "render" /\ f.boardForMotion # f.boardNow

\* C18: starting a new game cancels the in-flight sequence: when newGame()
\* returns, no callback of a move accepted before it is pending (no phase
\* timer, no watchdog, no frame callback of a move), so none can run and
\* change the display of the fresh board.
C18_NewGameCancels ==
    [][(calls' = calls + 1 /\ last'.op = "newGame") =>
          /\ ui'.animationTimers = <<>>
          /\ ~ui'.animationLockTimer
          /\ \A k \in 1 .. Len(ui'.frames) : ~ofMove(ui'.frames[k])]_vars

\* The scheduler is idle: no frame callback, no phase timer and no watchdog
\* is pending.
idle ==
    /\ ui.frames = <<>>
    /\ ui.animationTimers = <<>>
    /\ ~ui.animationLockTimer

\* C20: the spawned cell of every accepted move becomes visible no later than
\* the next point where the scheduler is idle: on an idle page no cell of
\* the board that holds a tile is displayed empty.  (The frame callback
\* paints every tile that slid or merged; the one cell it leaves empty while
\* the board holds a tile is the spawned cell, which the spawn timer is to
\* reveal.)
C20_SpawnRevealed ==
    (ui.attached /\ idle) =>
        \A i \in Cells :
            game.board[i] # null =>
                /\ ~ui.tiles[i].empty
                /\ ui.tiles[i].flavor = getFlavorName(game.board[i])

\* The game session state of the engine.
session(g) ==
    [board |-> g.board, score |-> g.score, moves |-> g.moves,
     gameOver |-> g.gameOver, won |-> g.won, winModalShown |-> g.winModalShown]

\* C21: the session state is changed by move() and reset() only: a handler
\* or callback that calls neither leaves board, score, move count, gameOver,
\* won and winModalShown as they were, and winModalShown, which move() never
\* writes, changes in no step but a new game.
C21_EngineOwnsSession ==
    [][(last'.op # "newGame") =>
          /\ Len(ui'.offered) = 0 => session(game') = session(game)
          /\ game'.winModalShown = game.winModalShown]_vars

(***************************************************************************)
(* Properties of the page and the engine: scenarios, timers, tags.         *)
(***************************************************************************)
\* The row [0, null, 0, 0] in the first row of the board.
GappedRow == rowBoard(<<0, null, 0, 0>>)

firstRow(board) == <<board[0], board[1], board[2], board[3]>>

GappedRowLeft ==
    /\ game.board = GappedRow
    /\ last'.op = "move"
    /\ last'.direction = "left"

\* C22: the row [0,null,0,0] moved left becomes [1,0,null,null] with score
\* +2, and the one merge performed combines the tiles that started at
\* positions 2 and 3, the tile that started at position 0 being in no merge.
C22_LastPairMerges ==
    [][GappedRowLeft =>
          /\ firstRow(game'.boardAfterMove) = <<1, 0, null, null>>
          /\ game'.score = game.score + 2
          /\ Len(game'.animationMetadata.merges) = 1
          /\ {game'.animationMetadata.merges[1].from[k] : k \in 1 .. 2} = {2, 3}]_vars

\* C22 as amended: the same row and score, the one merge combining the
\* tiles that started at positions 0 and 2 into position 0, and the tile
\* that started at position 3 sliding to position 1 without merging.
C22_FirstPairMerges ==
    [][GappedRowLeft =>
          /\ last'.ret
          /\ firstRow(game'.boardAfterMove) = <<1, 0, null, null>>
          /\ game'.score = game.score + 2
          /\ game'.animationMetadata.merges = <<[from |-> <<0, 2>>, to |-> 0]>>
          /\ game'.animationMetadata.moves =
                 <<[from |-> 2, to |-> 0], [from |-> 3, to |-> 1]>>
          /\ game'.mergedTiles = {0}]_vars

\* The row [0,null,0,0] has been moved left.
C22_Witness ==
    /\ last.op = "move"
    /\ last.direction = "left"
    /\ last.ret
    /\ game.boardBefore = GappedRow
    /\ firstRow(game.boardAfterMove) = <<1, 0, null, null>>

\* C23: when an accepted move has set gameOver, the modal is eventually
\* displayed and the queue of pending directions is then empty.
C23_GameOverIsShown ==
    game.gameOver ~> (~ui.modalHidden /\ ui.pendingDirections = <<>>)

\* The cleanup of the move that ended the game has displayed the modal.
C23_Witness ==
    /\ last.op = "cleanup"
    /\ game.gameOver
    /\ ~game.won
    /\ ~ui.modalHidden
    /\ ui.modalTitle = "Game Over"
    /\ ui.pendingDirections = <<>>

\* The requests of ip the limiter let through less than a window before now.
passedInWindow(s, ip, now) ==
    SelectSeq(s.passed[ip], LAMBDA ts : now - ts < RATE_LIMIT_WINDOW_MS)

\* No request passes as the 16th of its address within 60 seconds.
windowHolds ==
    \A ip \in Ips : \A i \in 1..Len(srv.passed[ip]) :
        Len(passedInWindow([srv EXCEPT !.passed[ip] = SubSeq(@, 1, i)],
                           ip, srv.passed[ip][i])) <= RATE_LIMIT_MAX

\* A POST of ip with 15 passed requests in the window is answered 429, stores
\* nothing and leaves the window log to the passed requests; any other POST
\* with a valid payload passes and is stored.
limiterStep(ip) ==
    IF Len(passedInWindow(srv, ip, srv.now)) >= RATE_LIMIT_MAX
    THEN /\ srv'.response.status = 429
         /\ srv'.file = srv.file
         /\ srv'.created = srv.created
         /\ srv'.passed = srv.passed
         /\ srv'.perIpRequests[ip] = passedInWindow(srv, ip, srv.now)
    ELSE /\ srv'.response.status = 201
         /\ srv'.passed[ip] = Append(srv.passed[ip], srv.now)
         /\ srv'.perIpRequests[ip] = passedInWindow(srv', ip, srv.now)

\* C24: per client address at most 15 POST requests pass the limiter in any
\* 60-second window; a further request in the window is answered 429, stores
\* nothing and is not counted toward the window.
C24_RateLimited ==
    /\ []windowHolds
    /\ [][\A ip \in Ips :
            (last'.op = "post" /\ last'.direction = ip) => limiterStep(ip)]_vars

\* Address a has had 15 requests pass at time 0 and is refused its next one
\* 30 seconds later.
C24_Witness ==
    /\ srv.attached
    /\ last.op = "post"
    /\ last.direction = "a"
    /\ srv.response.status = 429
    /\ Len(srv.passed["a"]) = RATE_LIMIT_MAX
    /\ srv.now = TickMs

\* The limit the claim gives for a limit parameter.
clamped(limitParam) ==
    IF limitParam = NaN THEN 20
    ELSE IF limitParam < 1 THEN 1
    ELSE IF limitParam > 100 THEN 100
    ELSE limitParam

\* The order of the leaderboard: score descending, then moves ascending, then
\* createdAt ascending.
ranksBefore(a, b) ==
    \/ a.score > b.score
    \/ a.score = b.score /\ a.moves < b.moves
    \/ a.score = b.score /\ a.moves = b.moves /\ a.createdAt < b.createdAt

\* What a row of the response shows of an entry.
shown(e) ==
    [username |-> e.username, score |-> e.score, moves |-> e.moves,
     maxTile |-> e.maxTile, createdAt |-> e.createdAt]

\* The number of entries of s that show as e does.
copies(s, e) == Cardinality({i \in 1 .. Len(s) : shown(s[i]) = shown(e)})

\* rows are the first k of the stored entries in the order of the leaderboard,
\* ranked 1 .. k.
leaders(rows, stored, k) ==
    /\ Len(rows) = k
    /\ \A i \in 1 .. k : rows[i].rank = i
    /\ \A i \in 1 .. k : \A j \in 1 .. k :
           i < j => ~ranksBefore(rows[j], rows[i])
    /\ \A i \in 1 .. k : copies(rows, rows[i]) <= copies(stored, rows[i])
    /\ \A i \in 1 .. Len(stored) :
           (k > 0 /\ ranksBefore(stored[i], rows[k]))
               => copies(rows, stored[i]) = copies(stored, stored[i])

\* C25: GET /api/leaderboard answers with the stored entries ordered by score
\* descending, moves ascending, createdAt ascending and ranked 1..k, where
\* k = min(limit, number of stored entries) and limit is the parameter clamped
\* to 1..100, or 20 when it is absent or not a number.
C25_GetIsRanked ==
    [][(last'.op = "get")
         => /\ srv'.response.status = 200
            /\ srv'.file = srv.file
            /\ leaders(srv'.response.entries, srv.file,
                       Min(clamped(last'.tile), Len(srv.file)))]_vars

\* A GET without a limit on a file of more than 20 entries, some of them
\* written by this server, answers with 20 rows.
C25_Witness ==
    /\ srv.attached
    /\ last.op = "get"
    /\ last.tile = NaN
    /\ Len(srv.file) > 20
    /\ srv.created > 0
    /\ Len(srv.response.entries) = 20

\* A GET asking for 150 entries of a file of more than 100 answers with 100.
C25_WitnessClamped ==
    /\ srv.attached
    /\ last.op = "get"
    /\ last.tile = 150
    /\ Len(srv.file) > 100
    /\ Len(srv.response.entries) = 100

\* The entries of s as a set.
elements(s) == {s[i] : i \in 1 .. Len(s)}

\* The POST that has just been answered 201 found the file as it is in the
\* state the step leaves.
storing == last'.op = "post" /\ srv'.response.status = 201

\* C26 as claimed: the entries a POST keeps are the MAX_ENTRIES with the latest
\* createdAt of the stored entries and the new one, so the entry just written
\* is among those stored.
C26_KeepsLatest ==
    [][storing
         => /\ srv'.entry \in elements(srv'.file)
            /\ \A kept \in elements(srv'.file) :
               \A dropped \in elements(srv.file) \ elements(srv'.file) :
                   dropped.createdAt <= kept.createdAt]_vars

\* C26 as the code has it: the entries a POST keeps are the MAX_ENTRIES that
\* rank first, by score descending, moves ascending, createdAt ascending, of
\* the stored entries and the new one; the entry just written is stored unless
\* MAX_ENTRIES entries rank before it.
C26_KeepsLeaders ==
    [][storing
         => /\ Len(srv'.file) = Min(Len(srv.file) + 1, MAX_ENTRIES)
            /\ elements(srv'.file) \subseteq elements(srv.file) \cup {srv'.entry}
            /\ \A i \in 1 .. Len(srv'.file) : \A j \in 1 .. Len(srv'.file) :
                   i < j => ~ranksBefore(srv'.file[j], srv'.file[i])
            /\ \A kept \in elements(srv'.file) :
               \A dropped \in (elements(srv.file) \cup {srv'.entry})
                                  \ elements(srv'.file) :
                   ~ranksBefore(dropped, kept)]_vars

\* A POST on a full file is answered 201 and its entry is not stored.
C26_Witness ==
    /\ srv.attached
    /\ last.op = "post"
    /\ srv.response.status = 201
    /\ Len(srv.file) = MAX_ENTRIES
    /\ srv.entry \notin elements(srv.file)

\* The phase callbacks in the order of the claim.
PhaseOrder == <<"merge", "unlock", "spawn", "cleanup">>

\* The kinds of the pending phase timers, in firing order.
pendingKinds == [k \in 1 .. Len(ui.animationTimers) |-> ui.animationTimers[k].kind]

\* The number of timers of the given kind among the last n that will fire.
RECURSIVE latest(_, _, _)
latest(kinds, kind, n) ==
    IF n = 0 THEN 0
    ELSE latest(kinds, kind, n - 1)
             + (IF kinds[Len(kinds) + 1 - n] = kind THEN 1 ELSE 0)

\* Timers of several frame callbacks may be pending together.  Each callback
\* of a sequence is still to fire whenever an earlier one of the sequence is:
\* among the timers that fire last, at any point, there are at least as many
\* of a phase as of the phase before it.
inPhaseOrder(kinds) ==
    \A n \in 0 .. Len(kinds) : \A p \in 1 .. 3 :
        latest(kinds, PhaseOrder[p], n) <= latest(kinds, PhaseOrder[p + 1], n)

\* The timers one frame callback has set on its own: merge-start, lock release,
\* spawn, cleanup, in this order of firing, cleanup with the longest delay.
oneSequence(timers) ==
    /\ [k \in 1 .. Len(timers) |-> timers[k].kind] = PhaseOrder
    /\ timers[1].delay = timers[2].delay
    /\ timers[2].delay <= timers[3].delay
    /\ timers[3].delay < timers[4].delay

ofMergeAndSpawn(f) == f.kind = "render" /\ Len(f.plans) > 0 /\ f.hasPendingSpawn

\* The timers the callback f sets when it runs on the game g.
timersOf(g, f) == phaseTimers(g, ghostsOfPlans(g, f.plans, Len(f.plans)), f.plans)

\* The spawn callback is due after the merge-start callback and within the
\* merge window that starts with it.
spawnInMergeWindow(timers) ==
    /\ timers[3].kind = "spawn"
    /\ timers[1].kind = "merge"
    /\ timers[3].delay > timers[1].delay
    /\ timers[3].delay < timers[1].delay + MERGE_MS

\* C28: for a move that merged at least once and spawned a tile, the spawn
\* callback is scheduled strictly later than the merge-start callback (the end
\* of the contact window) and before the end of the merge window.
C28_SpawnAfterContact ==
    [][(last'.op = "frame")
         => \A k \in 1 .. Len(ui.frames) :
                ofMergeAndSpawn(ui.frames[k])
                    => spawnInMergeWindow(timersOf(game, ui.frames[k]))]_vars

\* What cleanupAnimations leaves of a sequence: nothing.
cleared(g, u) ==
    /\ g.animationMetadata = EmptyMetadata
    /\ g.newTile = null
    /\ g.movedTiles = {}
    /\ g.mergedTiles = {}
    /\ u.mergeGhosts = <<>>
    /\ u.animationTimers = <<>>
    /\ ~u.animationLockTimer
    /\ ~u.isAnimating

\* cleanupAnimations has run in this step.
cleaning ==
    \/ last'.op = "cleanup"
    \/ last'.op = "watchdog" /\ ui.isAnimating

\* C29: cleanup clears the engine's animation data, the ghosts, the phase
\* timers, the watchdog and the lock before it tries the queue (the move it
\* then starts finds none of them and builds its own); an idle scheduler has
\* empty metadata and no spawned-index marker; and the metadata render
\* consumes is that of the move just made, on the board as it was.
C29_CleanupClears ==
    /\ []((ui.attached /\ idle)
              => game.animationMetadata = EmptyMetadata /\ game.newTile = null)
    /\ [][/\ (cleaning /\ ~anyMoved(ui')) => cleared(game', ui')
          /\ (cleaning /\ anyMoved(ui'))
              => /\ \A k \in 1 .. Len(ui'.offered) :
                        /\ ~ui'.offered[k].locked
                        /\ ~ui'.offered[k].inFlight
                 /\ ui'.isAnimating
                 /\ ui'.animationLockTimer
                 /\ ui'.animationTimers = <<>>
                 /\ ui'.mergeGhosts = <<>>
          /\ anyMoved(ui')
              => /\ game'.boardBefore = game.board
                 /\ Len(ui'.frames) > 0
                 /\ ui'.frames[Len(ui'.frames)].kind = "render"
                 /\ ui'.frames[Len(ui'.frames)].plans = mergePlanByTarget(game')
                 /\ \A k \in 1 .. Len(game'.animationMetadata.moves) :
                        at(game.board, game'.animationMetadata.moves[k].from) # null]_vars

\* The watchdog or the cleanup timer has run cleanupAnimations on a page with a
\* queued direction, and the engine accepted it: a new sequence has begun.
C29_Witness ==
    /\ ui.attached
    /\ last.op \in {"cleanup", "watchdog"}
    /\ anyMoved(ui)
    /\ ui.isAnimating
    /\ game.animationMetadata # EmptyMetadata

\* The animation tags of a tile.
AnimationTags == {"sliding", "merging", "spawning"}

\* C30: no tile carries more than one of sliding, merging and spawning, and a
\* frame callback of render() resets every tile's tags before it applies its
\* own (it leaves no merging or spawning tag, which only the timers add).
C30_TagsExclusive ==
    /\ [](ui.attached =>
            \A i \in Cells : Cardinality(ui.tiles[i].tags \cap AnimationTags) <= 1)
    /\ [][(/\ last'.op = "frame"
           /\ \E k \in 1 .. Len(ui.frames) : ui.frames[k].kind = "render")
            => \A i \in Cells : ui'.tiles[i].tags \subseteq {"sliding"}]_vars

\* All three tags are on the board at once, each on a tile of its own.
C30_Witness ==
    /\ ui.attached
    /\ \A tag \in AnimationTags : \E i \in Cells : tag \in ui.tiles[i].tags

(***************************************************************************)
(* Properties of ghosts, interrupts, metadata and the displayed board.     *)
(***************************************************************************)
\* A merge-start callback is pending.
mergeStartPending ==
    \E k \in 1 .. Len(ui.animationTimers) : ui.animationTimers[k].kind = "merge"

\* The ghost stands for an origin, other than the target, of a merge plan one
\* of the frame callbacks frames carried.
ghostOfPlan(ghost, frames) ==
    /\ ghost.from # ghost.to
    /\ \E k \in 1 .. Len(frames) :
          /\ frames[k].kind = "render"
          /\ \E p \in 1 .. Len(frames[k].plans) :
                /\ frames[k].plans[p].target = ghost.to
                /\ \E o \in 1 .. Len(frames[k].plans[p].from) :
                      frames[k].plans[p].from[o] = ghost.from

showsBoard(g, u) ==
    \A i \in Cells :
        /\ u.tiles[i].empty = (g.board[i] = null)
        /\ u.tiles[i].flavor
               = (IF g.board[i] = null THEN null ELSE getFlavorName(g.board[i]))
        /\ u.tiles[i].spawnFlavor = null
        /\ u.tiles[i].origin = null

\* C32: after interruptAnimations(), in any state, no phase timer and no
\* watchdog is pending, no ghost exists, no tile carries an animation tag,
\* every cell displays the engine's current board, the engine's animation
\* metadata and spawned-index marker are cleared and the lock is free; the
\* board, the score and the move count are as they were.
C32_InterruptSnaps ==
    [][(last'.op = "interrupt")
         => /\ cleared(game', ui')
            /\ \A i \in Cells : ui'.tiles[i].tags = {}
            /\ showsBoard(game', ui')
            /\ game'.board = game.board
            /\ game'.score = game.score
            /\ game'.moves = game.moves]_vars

\* interruptAnimations() has abandoned a sequence during which a key was
\* queued: the page shows the board, the key is still waiting.
C32_Witness ==
    /\ ui.attached
    /\ last.op = "interrupt"
    /\ game.moves > 0
    /\ showsBoard(game, ui)
    /\ Len(ui.pendingDirections) > 0

(***************************************************************************)
(* Properties of the move metadata, the board at rest, tile counts,        *)
(* direction symmetry, concurrent writes and tile kinds.                   *)
(***************************************************************************)
sameLine(direction, a, b) ==
    \E line \in readingLines(direction) :
        \E p \in 1 .. 4, q \in 1 .. 4 : line[p] = a /\ line[q] = b

movesFrom(moves, c) == {k \in 1 .. Len(moves) : moves[k].from = c}

movesTo(moves, c) == {k \in 1 .. Len(moves) : moves[k].to = c}

mergesTo(merges, c) == {m \in 1 .. Len(merges) : merges[m].to = c}

\* The board the records describe: a merge target holds the merged kind, the
\* target of a slide the kind that slid, an unmoved tile stays, the rest is
\* empty.
replay(before, moves, merges) ==
    [c \in Cells |->
        IF mergesTo(merges, c) # {}
        THEN before[merges[CHOOSE m \in mergesTo(merges, c) : TRUE].from[1]] + 1
        ELSE IF movesTo(moves, c) # {}
        THEN before[moves[CHOOSE k \in movesTo(moves, c) : TRUE].from]
        ELSE IF movesFrom(moves, c) = {} THEN before[c]
        ELSE null]

\* What C33 says of one move: before is the board before it, after the board
\* after the slide and before the spawn.
MetadataIsExact(direction, before, after, moves, merges) ==
    /\ \A k \in 1 .. Len(moves) :
          /\ moves[k].from # moves[k].to
          /\ sameLine(direction, moves[k].from, moves[k].to)
          /\ before[moves[k].from] # null
          /\ after[moves[k].to] # null
          \* rows are kept on left/right, columns on up/down
          /\ direction \in {"left", "right"}
                => moves[k].from \div 4 = moves[k].to \div 4
          /\ direction \in {"up", "down"}
                => moves[k].from % 4 = moves[k].to % 4
    /\ \A m \in 1 .. Len(merges) :
          LET a == merges[m].from[1]
              b == merges[m].from[2]
              t == merges[m].to
          IN  /\ a # b
              /\ sameLine(direction, a, b)
              /\ sameLine(direction, a, t)
              /\ before[a] # null
              /\ before[a] = before[b]
              /\ after[t] = before[a] + 1
    /\ \A c \in Cells :
          before[c] # null =>
              \/ /\ movesFrom(moves, c) = {}
                 /\ after[c] # null
              \/ Cardinality(movesFrom(moves, c)) = 1
    /\ after = replay(before, moves, merges)

\* C33: after an accepted move the metadata describes what happened: every
\* moves record has from # to inside one line of the move axis, a tile at from
\* before and a tile at to after; every merges record has two distinct origins
\* of one line holding the same kind k before and a target holding k+1 after;
\* every tile is accounted for exactly once; no tile leaves its row on
\* left/right or its column on up/down.
C33_MetadataExact ==
    [][Accepted =>
          MetadataIsExact(last'.direction, game.board, game'.boardAfterMove,
                          game'.animationMetadata.moves,
                          game'.animationMetadata.merges)]_vars

\* An accepted move with a merge whose target tile stayed where it was, a
\* second tile that slid into it and a third tile that only slid.
C33_Witness ==
    /\ last.op = "move"
    /\ last.ret
    /\ \E m \in 1 .. Len(game.animationMetadata.merges) :
          LET merge == game.animationMetadata.merges[m]
          IN  /\ merge.to \in origins(merge)
              /\ movesFrom(game.animationMetadata.moves, merge.to) = {}
    /\ \E k \in 1 .. Len(game.animationMetadata.moves) :
          mergesTo(game.animationMetadata.merges,
                   game.animationMetadata.moves[k].to) = {}
    /\ game.boardAfterMove
          = replay(game.boardBefore, game.animationMetadata.moves,
                   game.animationMetadata.merges)

\* C34: whenever the scheduler is quiescent (the lock is free and no frame
\* callback, phase timer or watchdog is pending) every cell displays the kind
\* the engine's board holds there, empty for null, and no tile is offset from
\* its cell.
C34_DisplayAtRest ==
    (ui.attached /\ idle /\ ~ui.isAnimating) => showsBoard(game, ui)

\* C35: tiles are conserved.  An accepted move leaves as many tiles as there
\* were, minus one per merge, plus the spawned one; after its slide there is
\* an empty cell for the spawn; and the board always holds at least two
\* tiles.
C35_TilesConserved ==
    /\ [](tileCount(game.board) >= 2)
    /\ [][Accepted =>
             /\ tileCount(game'.board)
                   = tileCount(game.board)
                     - Len(game'.animationMetadata.merges) + 1
             /\ tileCount(game'.boardAfterMove)
                   = tileCount(game.board) - Len(game'.animationMetadata.merges)
             /\ \E c \in Cells : game'.boardAfterMove[c] = null]_vars

\* The only two tiles of a board have merged: with the spawned tile the board
\* holds two tiles again.
C35_Witness ==
    /\ last.op = "move"
    /\ last.ret
    /\ tileCount(game.boardBefore) = 2
    /\ Len(game.animationMetadata.merges) = 1
    /\ tileCount(game.boardAfterMove) = 1
    /\ tileCount(game.board) = 2

\* The move functions of a direction change the board g holds.
changesBoard(g, direction) ==
    ~boardsEqual(g.board, shift(clearTracking(g), direction).board)

\* C36: game-over detection agrees with the move operation.  On every board
\* with at least one tile canMove() is true if and only if at least one of
\* the four directions changes the board; on a full board without an
\* adjacent equal pair no direction changes the board and move() returns
\* false for each.
C36_CanMoveIffAMoveChanges ==
    tileCount(game.board) >= 1 =>
        /\ canMove(game.board)
              <=> \E direction \in Directions : changesBoard(game, direction)
        /\ noMovesLeft(game.board) =>
              \A direction \in Directions :
                  /\ ~changesBoard(game, direction)
                  /\ ~slide(game, direction).changed

\* A move has filled the board and left no adjacent equal pair: canMove() is
\* false and no direction changes the board.
C36_Witness ==
    /\ last.op = "move"
    /\ \A c \in Cells : game.board[c] # null
    /\ ~canMove(game.board)
    /\ \A direction \in Directions : ~changesBoard(game, direction)

\* C37: no queued input is stranded.  Between handlers, if the lock is free
\* the queue of pending directions is empty.
C37_NoStrandedInput ==
    (ui.attached /\ ~ui.isAnimating) => ui.pendingDirections = <<>>

\* The unlock timer offered both queued directions to the engine, neither
\* moved a tile: the lock is free and the queue is empty.
C37_Witness ==
    /\ last.op = "unlock"
    /\ Len(ui.offered) = 2
    /\ ~ui.offered[1].moved
    /\ ~ui.offered[2].moved
    /\ ~ui.isAnimating
    /\ ui.pendingDirections = <<>>

\* The ids of the entries of a file.
storedIds(file) == {file[k].id : k \in 1 .. Len(file)}

\* C38: no acknowledged leaderboard write is lost.  While the file is below
\* the storage maximum, the entry of every POST answered 201 is in the
\* stored file, and a GET that follows returns as many entries as were
\* acknowledged (up to its limit), whatever the interleaving of the requests'
\* read, append and write steps.
C38_NoLostWrite ==
    (srv.attached /\ Len(srv.file) < MAX_ENTRIES) =>
        /\ srv.acked \subseteq storedIds(srv.file)
        /\ (/\ last.op = "get"
            /\ last.tile = NaN
            /\ Cardinality(srv.acked) <= DEFAULT_LIMIT) =>
              Len(srv.response.entries) >= Cardinality(srv.acked)

\* The cell a cell becomes when every row is mirrored, and when the board is
\* transposed.
mirrored(c) == (c \div 4) * 4 + (3 - (c % 4))

transposed(c) == (c % 4) * 4 + (c \div 4)

\* The engine g seen through a permutation of the cells that is its own
\* inverse: boards, tracking sets and metadata with their indices mapped.
seenThrough(g, cell(_)) ==
    [g EXCEPT
        !.board          = [c \in Cells |-> g.board[cell(c)]],
        !.boardBefore    = [c \in Cells |-> g.boardBefore[cell(c)]],
        !.boardAfterMove = [c \in Cells |-> g.boardAfterMove[cell(c)]],
        !.movedTiles     = {cell(c) : c \in g.movedTiles},
        !.mergedTiles    = {cell(c) : c \in g.mergedTiles},
        !.animationMetadata =
            [moves  |-> [k \in 1 .. Len(g.animationMetadata.moves) |->
                            [from |-> cell(g.animationMetadata.moves[k].from),
                             to   |-> cell(g.animationMetadata.moves[k].to)]],
             merges |-> [m \in 1 .. Len(g.animationMetadata.merges) |->
                            [from |-> <<cell(g.animationMetadata.merges[m].from[1]),
                                        cell(g.animationMetadata.merges[m].from[2])>>,
                             to   |-> cell(g.animationMetadata.merges[m].to)]]]]

\* C39: the four directions are mirror images of one another.  Moving right
\* is mirroring each row, moving left and mirroring back; moving up is moving
\* left on the transposed board and moving down is moving right on it: for
\* the board, the score, the tracking sets and the metadata with indices
\* mapped.  In a run of three equal tiles the pair nearest the edge the tiles
\* move toward merges: [0,0,0,null] moved right gives [null,null,0,1].
C39_DirectionsMirror ==
    game # NoGame =>
        LET g == clearTracking(game)
        IN  /\ shift(g, "right")
                  = seenThrough(shift(seenThrough(g, mirrored), "left"), mirrored)
            /\ shift(g, "up")
                  = seenThrough(shift(seenThrough(g, transposed), "left"), transposed)
            /\ shift(g, "down")
                  = seenThrough(shift(seenThrough(g, transposed), "right"), transposed)
            /\ \A row \in 0 .. 3 :
                  alongLine(g.board, leftLine(row)) = <<0, 0, 0, null>>
                      => alongLine(shift(g, "right").board, leftLine(row))
                             = <<null, null, 0, 1>>

\* The row [0,0,0,null] has been moved right: it reads [null,null,0,1], the
\* two tiles nearest the right edge merged.
C39_Witness ==
    /\ last.op = "move"
    /\ last.direction = "right"
    /\ last.ret
    /\ alongLine(game.boardBefore, leftLine(0)) = <<0, 0, 0, null>>
    /\ alongLine(game.boardAfterMove, leftLine(0)) = <<null, null, 0, 1>>
    /\ Len(game.animationMetadata.merges) = 1
    /\ game.animationMetadata.merges[1].to = 3

\* C40: tile kinds stay within the progression.  In every reachable state,
\* post-win play included, every tile's kind is at most the winning rank and
\* is an index of the 15-entry flavor table, so getFlavorName is defined for
\* it.
C40_KindsInProgression ==
    game # NoGame =>
        \A c \in Cells :
            game.board[c] # null =>
                /\ game.board[c] <= WinKind
                /\ game.board[c] \in 0 .. 14
                /\ getFlavorName(game.board[c]) # undefined

====
